---------------------------- MODULE Spec2Model ----------------------------
(***************************************************************************)
(* A model of the VK photo archiver (src/main.py and src/modules):  the    *)
(* per-photo upload loop over the Google Drive and Yandex Disk             *)
(* destinations, its name resolution, its retry loops, the in-memory       *)
(* inventories of the two destination folders and the FileList manifest.   *)
(*                                                                         *)
(* File names are modelled as sequences of tokens, so that formatting,     *)
(* str.replace and str.startswith are computed as the code computes them:  *)
(*   "10.jpg"            is  <<"10", ".", "jpg">>                          *)
(*   "10_2020-01-01.jpg" is  <<"10", "_", "d1", ".", "jpg">>               *)
(*   "10_2020-01-01(2).jpg" is <<"10", "_", "d1", "(", 2, ")", ".", "jpg">>*)
(***************************************************************************)
EXTENDS Integers, Sequences, FiniteSets, TLC

(* ------------------------------ bounds -------------------------------- *)

\* number of photos the source hands to the upload loop (len(photos))
MaxPhotos == 2

\* number of bytes of a photo (the size of the image_data buffer)
ContentLen == 1

\* number of entries a destination folder's listing holds when the run starts
MaxListing == 1

(* ------------------------- program constants -------------------------- *)

\* for retry in range(0, 3)
RetryCount == 3

(* --------------------------- input domains ---------------------------- *)

\* str(photo.likes_count)
Likes == {"10", "7"}

\* str(photo.date.date())
Dates == {"d1", "d2"}

\* md5 hex digests of photo contents (a str, like a name a token sequence)
Checksums == {<<"a">>, <<"b">>, <<"c">>}

\* size.file_extension
Extensions == {"jpg"}

\* str(size): the type letter of the largest size of a photo
Sizes == {"w"}

\* the two locators main.py passes to FileList.add
GoogleDisk == "google:/gdrive_path"
YandexDisk == "yandex:/yandex_path"

Range(f) == {f[x] : x \in DOMAIN f}

\* d[k] = v on a Python dict
DictSet(d, k, v) == [x \in (DOMAIN d) \cup {k} |-> IF x = k THEN v ELSE d[x]]

EmptyDict == [x \in {} |-> <<>>]

(* ----------------------------- checksum ------------------------------- *)

\* a buffer is its bytes and its read position (0 is the start)
\* hashlib.md5(data).hexdigest(): a digest is a token sequence like a name;
\* different data of the model have different digests
Md5(data) == <<"md5">> \o data

\* buffer.read(): the bytes from the position to the end; the position
\* moves to the end
BufferRead(buffer) ==
    [data |-> SubSeq(buffer.data, buffer.pos + 1, Len(buffer.data)),
     buffer |-> [buffer EXCEPT !.pos = Len(buffer.data)]]

\* buffer.seek(n)
BufferSeek(buffer, n) == [buffer EXCEPT !.pos = n]

\* a faulty variant of ChecksumOf: the position is not put back
ChecksumWithoutSeek(buffer) ==
    LET got == BufferRead(buffer)
    IN  [result |-> Md5(got.data), buffer |-> got.buffer]

\* checksum(buffer), lines 23-27: the digest it returns and the buffer it
\* leaves
ChecksumOf(buffer) ==
    LET cursor == buffer.pos
        got == BufferRead(buffer)
    IN  [result |-> Md5(got.data), buffer |-> BufferSeek(got.buffer, cursor)]

(* ------------------------------ names --------------------------------- *)

\* f'{photo.likes_count}.{file_ext}'
BaseName(p) == <<p.likes_count, ".", p.file_ext>>

\* f'{photo.likes_count}_{str(photo.date.date())}.{file_ext}'
DatedName(p) == <<p.likes_count, "_", p.date, ".", p.file_ext>>

\* name.replace('.', f'({n}).'): every "." of the name is replaced
RECURSIVE ReplaceDot(_, _)
ReplaceDot(name, n) ==
    IF name = <<>> THEN <<>>
    ELSE IF Head(name) = "."
         THEN <<"(", n, ")", ".">> \o ReplaceDot(Tail(name), n)
         ELSE <<Head(name)>> \o ReplaceDot(Tail(name), n)

\* name.startswith(f'{photo.likes_count}_')
StartsWithLikes(name, p) ==
    Len(name) >= 2 /\ name[1] = p.likes_count /\ name[2] = "_"

\* len([True for item in files.values() if item.startswith(f'{likes}_')])
PrefixCount(files, p) ==
    Cardinality({h \in DOMAIN files : StartsWithLikes(files[h], p)})

\* a faulty variant of RenamedName: the index is appended after i += 1
RenamedNameCountsFromOne(files, p) ==
    ReplaceDot(DatedName(p), PrefixCount(files, p) + 1)

\* lines 131-136 / 141-146: the name the collision branch assigns
RenamedName(files, p) ==
    LET n == PrefixCount(files, p)
    IN  IF n # 0 THEN ReplaceDot(DatedName(p), n) ELSE DatedName(p)

\* any([True for item in files.values() if file_name == item])
NameTaken(files, name) == \E h \in DOMAIN files : files[h] = name

\* a faulty variant of HasChecksum: the digest is looked for among the names
HasChecksumAmongNames(files, h) == h \in Range(files)

\* files.get(md5): the name recorded for the checksum, or None
HasChecksum(files, h) == h \in DOMAIN files

\* a faulty variant of Collides: the test of line 130 without its "not"
CollidesWhenChecksumKnown(enabled, files, name, h) ==
    enabled /\ NameTaken(files, name) /\ HasChecksum(files, h)

\* the condition of the collision branch for one destination (lines 129-130)
Collides(enabled, files, name, h) ==
    enabled /\ NameTaken(files, name) /\ ~HasChecksum(files, h)

(* ---------------------------- FileList -------------------------------- *)

\* FileList.get: index of the first entry whose file_name or checksum is the
\* key, 0 for None
FileListGet(items, key) ==
    LET hits == {k \in 1..Len(items) :
                    items[k].file_name = key \/ items[k].checksum = key}
    IN  IF hits = {} THEN 0
        ELSE CHOOSE k \in hits : \A m \in hits : k <= m

\* a faulty variant of FileListFind: the entry is looked up by name only
FileListFindByName(items, name, checksum) == FileListGet(items, name)

\* self.get(name) or self.get(checksum)
FileListFind(items, name, checksum) ==
    IF FileListGet(items, name) # 0 THEN FileListGet(items, name)
    ELSE FileListGet(items, checksum)

\* whether FileList.add raises FileAlreadyExistInFileList
FileListAddRaises(items, name, checksum, disk) ==
    LET k == FileListFind(items, name, checksum)
    IN  k # 0 /\ disk \in Range(items[k].disks)

\* a faulty variant of FileListAdd: a new entry for every call
FileListAddAlwaysAppends(items, name, size, checksum, disk) ==
    Append(items, [file_name |-> name, size |-> size,
                   checksum |-> checksum, disks |-> <<disk>>])

\* a faulty variant of FileListAdd: a disk is never added to an entry
FileListAddOnlyNew(items, name, size, checksum, disk) ==
    IF FileListFind(items, name, checksum) # 0 THEN items
    ELSE Append(items, [file_name |-> name, size |-> size,
                        checksum |-> checksum, disks |-> <<disk>>])

\* FileList.add: the list after the call (unchanged when it raises)
FileListAdd(items, name, size, checksum, disk) ==
    LET k == FileListFind(items, name, checksum)
    IN  IF k # 0
        THEN IF disk \notin Range(items[k].disks)
             THEN [items EXCEPT ![k].disks = Append(@, disk)]
             ELSE items
        ELSE Append(items, [file_name |-> name, size |-> size,
                            checksum |-> checksum, disks |-> <<disk>>])

(* ------------------------------ state --------------------------------- *)

VARIABLES
    gdrive,                    \* "GoogleDriveItem" | "False" | "None"
    yadisk,                    \* "YaDisk" | "False" | "None"
    google_folder_files_list,  \* dict md5 -> name
    yandex_folder_files_list,  \* dict md5 -> name
    files_list,                \* FileList._items
    photo,                     \* the photo of the current iteration
    file_name,                 \* the name being resolved / uploaded
    i,                         \* the index variable of the resolution loop
    image_data,                \* read position of the photo's buffer
    retry,                     \* loop variable of the current retry loop
    pc,                        \* position of the main script
    taken,                     \* number of photos taken from the list so far
    manifest_file,             \* what save_to_file has written
    \* history variables (not read by the program)
    attempts,                  \* upload calls made for the current pair
    result,                    \* outcome of the current (photo, destination)
    sent,                      \* bytes the pair's last upload call sent, or -1
    uploaded,                  \* log of the successful uploads of the run
    rejected,                  \* candidates the resolution loop has renamed
    resolved,                  \* snapshot taken when resolution finished
    last_add,                  \* the last FileList.add call and its effect
    \* YaDisk.upload
    retry_count,               \* its local retry_count
    max_retry_count,           \* its parameter max_retry_count
    \* the environment
    listing,                   \* what the two folder listings returned
    photo_count                \* the number of photos asked for (line 108):
                               \* the list holds at most that many

\* the variables of the photo loop (lines 115-189)
loop_vars == <<google_folder_files_list, yandex_folder_files_list,
               files_list, photo, file_name, i, image_data, retry, taken,
               manifest_file, attempts, result, sent, uploaded, rejected,
               resolved, last_add, retry_count, max_retry_count, listing,
               photo_count>>

\* the start of the script (lines 59-78) and the Google token
VARIABLES
    user_input,                \* the answer to "where to save" (1, 2 or 3)
    config,                    \* what config.yaml holds
    google_token,              \* a GoogleToken or None
    now,                       \* datetime.now().timestamp()
    returned,                  \* the value the last call returned
    asked                      \* history: the requests and questions made

token_vars == <<user_input, config, google_token, now, returned, asked>>

\* VKUser.get_photos_from_albums
VARIABLES
    albums,                    \* its argument: the photo_count of each album
    album,                     \* index in albums of the album of the outer loop
    offset,                    \* the variable i of the inner loop
    code,                      \* the photos.get calls put into the script
    limit,                     \* its local limit
    executed,                  \* history: the scripts given to api.execute
    generated                  \* history: the photos.get calls generated

vk_vars == <<albums, album, offset, code, limit, executed, generated>>

\* GoogleDriveItem.create_folder
VARIABLES
    drive,                     \* the folders of the Google account
    parts,                     \* the components of its argument path
    part,                      \* index of the component of the loop
    prev                       \* id of its local prev

drive_vars == <<drive, parts, part, prev>>

\* VKAPI
VARIABLES
    request_log,               \* self._request_log, in milliseconds
    sent_at                    \* history: the times of all requests

api_vars == <<request_log, sent_at>>

\* the variables of the parts of the program other than the photo loop
other_vars == <<token_vars, vk_vars, drive_vars, api_vars>>

vars == <<gdrive, yadisk, pc, loop_vars, other_vars>>

None == <<>>

\* the start of the script is not running
TokenIdle ==
    /\ user_input = 0
    /\ config = None
    /\ google_token = None
    /\ now = 0
    /\ returned = None
    /\ asked = <<>>

\* get_photos_from_albums is not running
VkIdle ==
    /\ albums = <<>>
    /\ album = 0
    /\ offset = 0
    /\ code = <<>>
    /\ limit = None
    /\ executed = <<>>
    /\ generated = <<>>

\* create_folder is not running
DriveIdle ==
    /\ drive = {}
    /\ parts = <<>>
    /\ part = 0
    /\ prev = 0

\* no request to the VK API was made
ApiIdle ==
    /\ request_log = <<>>
    /\ sent_at = <<>>

\* the other parts of the program are not running
Idle == TokenIdle /\ VkIdle /\ DriveIdle /\ ApiIdle

Photos == [likes_count : Likes, date : Dates, md5 : Checksums,
           file_ext : Extensions, size : Sizes]

NoPhoto == [likes_count |-> "", date |-> "", md5 |-> <<>>, file_ext |-> "",
            size |-> ""]

NoAdd == [name |-> <<>>, size |-> "", checksum |-> <<>>, disk |-> "",
          raised |-> FALSE, before |-> <<>>]

NoSnapshot == [file_name |-> <<>>, image_data |-> 0, yadisk |-> "",
               yandex |-> EmptyDict]

(* ---------------------- inventories at start -------------------------- *)

\* what a listing of a destination folder can hold when the run starts
ListingNames ==
    {<<"10", ".", "jpg">>, <<"7", ".", "jpg">>, <<"10", "_", "d1", ".", "jpg">>}

ListingEntries == [md5 : {<<"a">>, <<"s">>}, name : ListingNames]

Listings == UNION {[1..n -> ListingEntries] : n \in 0..MaxListing}

\* a listed Google item without the key md5Checksum (a folder, a document)
NoMd5 == <<>>

\* lines 96-99 and 106-107: files[item md5] = item name, in listing order;
\* line 98 passes over the Google items without md5Checksum (every item of
\* a Yandex listing has its md5)
RECURSIVE BuildInventory(_)
BuildInventory(items) ==
    IF items = <<>> THEN EmptyDict
    ELSE LET last == items[Len(items)]
             rest == BuildInventory(SubSeq(items, 1, Len(items) - 1))
         IN  IF last.md5 = NoMd5 THEN rest
             ELSE DictSet(rest, last.md5, last.name)

\* the length of the photo list: one photo more is explored when a single
\* destination was selected
PhotoBound ==
    IF gdrive = "False" \/ yadisk = "False" THEN MaxPhotos + 1 ELSE MaxPhotos

Init ==
    /\ gdrive \in {"GoogleDriveItem", "False"}
    /\ yadisk \in {"YaDisk", "False"}
    /\ ~(gdrive = "False" /\ yadisk = "False")
    /\ \E lg \in Listings, ly \in Listings :
          listing = [google |-> IF gdrive = "GoogleDriveItem" THEN lg ELSE <<>>,
                     yandex |-> IF yadisk = "YaDisk" THEN ly ELSE <<>>]
    /\ google_folder_files_list = BuildInventory(listing.google)
    /\ yandex_folder_files_list = BuildInventory(listing.yandex)
    /\ photo_count = PhotoBound
    /\ files_list = <<>>
    /\ photo = NoPhoto
    /\ file_name = <<>>
    /\ i = 0
    /\ image_data = 0
    /\ retry = 0
    /\ pc = "for_photo"
    /\ taken = 0
    /\ manifest_file = [writes |-> 0, items |-> <<>>]
    /\ attempts = 0
    /\ result = "PENDING"
    /\ sent = -1
    /\ uploaded = EmptyDict
    /\ rejected = {}
    /\ resolved = NoSnapshot
    /\ last_add = NoAdd
    /\ retry_count = 0
    /\ max_retry_count = 0
    /\ Idle

(* --------------------------- the photo loop --------------------------- *)

\* the position of the photo's buffer after md5 = checksum(image_data) when
\* it was at cursor before (line 124); the model of the upload loop keeps
\* the position of the buffer only
CursorAfterChecksum(cursor) ==
    ChecksumOf([data |-> [k \in 1..ContentLen |-> "x"], pos |-> cursor]).buffer.pos

\* lines 118-127: the next photo of the list; read_bytes() returns a fresh
\* buffer positioned at its start, checksum() fingerprints it
NextPhoto ==
    /\ pc = "for_photo"
    /\ taken < photo_count
    /\ \E p \in Photos :
          /\ photo' = p
          /\ file_name' = BaseName(p)
    /\ image_data' = CursorAfterChecksum(0)
    /\ i' = 0
    /\ taken' = taken + 1
    /\ pc' = "resolve"
    /\ attempts' = 0
    /\ result' = "PENDING"
    /\ sent' = -1
    /\ rejected' = {}
    /\ resolved' = NoSnapshot
    /\ UNCHANGED <<other_vars, listing, photo_count, gdrive, yadisk, google_folder_files_list,
                   yandex_folder_files_list, files_list, retry, manifest_file,
                   uploaded, last_add, retry_count, max_retry_count>>

\* lines 120 and 123: size.mime_type and size.read_bytes() raise when the
\* photo's link does not answer 200; nothing catches it
PhotoLinkBroken ==
    /\ pc = "for_photo"
    /\ taken < photo_count
    /\ pc' = "crashed"
    /\ UNCHANGED <<other_vars, listing, photo_count, sent, gdrive, yadisk, google_folder_files_list,
                   yandex_folder_files_list, files_list, photo, file_name, i,
                   image_data, retry, taken, manifest_file, attempts, result,
                   uploaded, rejected, resolved, last_add, retry_count,
                   max_retry_count>>

\* lines 188-189: the list is exhausted, the manifest is written
SaveToFile ==
    /\ pc = "for_photo"
    /\ manifest_file' = [writes |-> manifest_file.writes + 1,
                         items |-> files_list]
    /\ pc' = "done"
    /\ UNCHANGED <<other_vars, listing, photo_count, sent, gdrive, yadisk, google_folder_files_list,
                   yandex_folder_files_list, files_list, photo, file_name, i,
                   image_data, retry, taken, attempts, result, uploaded,
                   rejected, resolved, last_add, retry_count, max_retry_count>>

\* line 169: the Google loop has ended, the Yandex loop starts
GoogleDone ==
    /\ pc = "google_done"
    /\ pc' = "yandex"
    /\ attempts' = 0
    /\ result' = "PENDING"
    /\ sent' = -1
    /\ UNCHANGED <<other_vars, listing, photo_count, gdrive, yadisk, google_folder_files_list,
                   yandex_folder_files_list, files_list, photo, file_name, i,
                   image_data, retry, taken, manifest_file, uploaded,
                   rejected, resolved, last_add, retry_count,
                   max_retry_count>>

\* a faulty variant of YandexDone: the photo is handed to Google again
YandexDoneBackToGoogle ==
    /\ pc = "yandex_done"
    /\ pc' = "google"
    /\ attempts' = 0
    /\ result' = "PENDING"
    /\ sent' = -1
    /\ UNCHANGED <<other_vars, listing, photo_count, gdrive, yadisk,
                   google_folder_files_list, yandex_folder_files_list,
                   files_list, photo, file_name, i, image_data, retry, taken,
                   manifest_file, uploaded, rejected, resolved, last_add,
                   retry_count, max_retry_count>>

\* line 118: the body of the loop has ended.  Its locals (size, file_name,
\* image_data, md5, i, retry) are not read again before the next iteration
\* assigns them, so the model forgets them here
YandexDone ==
    /\ pc = "yandex_done"
    /\ pc' = "for_photo"
    /\ photo' = NoPhoto
    /\ file_name' = <<>>
    /\ i' = 0
    /\ image_data' = 0
    /\ attempts' = 0
    /\ result' = "PENDING"
    /\ sent' = -1
    /\ rejected' = {}
    /\ resolved' = NoSnapshot
    /\ retry_count' = 0
    /\ max_retry_count' = 0
    /\ UNCHANGED <<other_vars, listing, photo_count, gdrive, yadisk, google_folder_files_list,
                   yandex_folder_files_list, files_list, retry, taken,
                   manifest_file, uploaded, last_add>>

(* -------------------------- name resolution --------------------------- *)

GoogleCollides ==
    Collides(gdrive = "GoogleDriveItem", google_folder_files_list,
             file_name, photo.md5)

YandexCollides ==
    Collides(yadisk = "YaDisk", yandex_folder_files_list,
             file_name, photo.md5)

\* lines 131-138 / 141-148: rename against one inventory and go round again
Rename(files) ==
    /\ i' = PrefixCount(files, photo) + 1
    /\ file_name' = RenamedName(files, photo)
    /\ rejected' = rejected \cup {file_name}
    /\ UNCHANGED <<other_vars, listing, photo_count, sent, gdrive, yadisk, google_folder_files_list,
                   yandex_folder_files_list, files_list, photo, image_data,
                   retry, pc, taken, manifest_file, attempts, result,
                   uploaded, resolved, last_add, retry_count,
                   max_retry_count>>

\* lines 129-138
ResolveGoogle ==
    /\ pc = "resolve"
    /\ GoogleCollides
    /\ Rename(google_folder_files_list)

\* lines 139-148
ResolveYandex ==
    /\ pc = "resolve"
    /\ ~GoogleCollides
    /\ YandexCollides
    /\ Rename(yandex_folder_files_list)

\* line 149
ResolveBreak ==
    /\ pc = "resolve"
    /\ ~GoogleCollides
    /\ ~YandexCollides
    /\ pc' = "google"
    /\ retry' = 0
    /\ resolved' = [file_name |-> file_name, image_data |-> image_data,
                    yadisk |-> yadisk, yandex |-> yandex_folder_files_list]
    /\ UNCHANGED <<other_vars, listing, photo_count, sent, gdrive, yadisk, google_folder_files_list,
                   yandex_folder_files_list, files_list, photo, file_name, i,
                   image_data, taken, manifest_file, attempts, result,
                   uploaded, rejected, last_add, retry_count,
                   max_retry_count>>

(* ---------------------------- retry loops ----------------------------- *)

\* a faulty variant of LoopContinues: one iteration too many
LoopContinuesOnceMore == retry + 1 <= RetryCount

\* the loop variable after an iteration that did not break: the next value
\* of range(0, 3), or the end of the loop
LoopContinues == retry + 1 < RetryCount

\* an iteration ends without break
Continue(loop_pc, next_pc) ==
    IF LoopContinues
    THEN retry' = retry + 1 /\ pc' = loop_pc
    ELSE retry' = 0 /\ pc' = next_pc

\* an iteration ends with break
Break(next_pc) == retry' = 0 /\ pc' = next_pc

\* the outcome of a (photo, destination) pair once its loop is left
Outcome(so_far, calls) ==
    IF so_far # "PENDING" THEN so_far
    ELSE IF LoopContinues THEN "PENDING"
    ELSE IF calls > 0 THEN "FAILED" ELSE "OFF"

\* a faulty variant of RecordUpload: the upload is not recorded
RecordUploadForgotten(files, h, name) == files

\* a faulty variant of RecordUpload: the inventory is started afresh
RecordUploadRebuilds(files, h, name) == DictSet(EmptyDict, h, name)

\* lines 159 and 178: files[md5] = file_name
RecordUpload(files, h, name) == DictSet(files, h, name)

\* the bytes an upload call reads from the buffer: from its position to the end
BytesSent == ContentLen - image_data

\* the log of successful uploads with one more upload of the current photo:
\* per destination and checksum, the names it was uploaded under
Logged(disk) ==
    LET key == <<disk, photo.md5>>
    IN  IF key \in DOMAIN uploaded
        THEN [uploaded EXCEPT ![key] = Append(@, file_name)]
        ELSE DictSet(uploaded, key, <<file_name>>)

(* ------------------------ Google Drive, lines 150-168 ------------------ *)

\* line 152 is false: gdrive is False (not selected) or None (disabled)
GoogleOff ==
    /\ pc = "google"
    /\ gdrive # "GoogleDriveItem"
    /\ Continue("google", "google_done")
    /\ result' = Outcome(result, attempts)
    /\ UNCHANGED <<other_vars, listing, photo_count, sent, gdrive, yadisk, google_folder_files_list,
                   yandex_folder_files_list, files_list, photo, file_name, i,
                   image_data, taken, manifest_file, attempts, uploaded,
                   rejected, resolved, last_add, retry_count,
                   max_retry_count>>

\* lines 153-156: the checksum is in the inventory
GoogleSkip ==
    /\ pc = "google"
    /\ gdrive = "GoogleDriveItem"
    /\ HasChecksum(google_folder_files_list, photo.md5)
    /\ Break("google_done")
    /\ result' = IF result = "PENDING" THEN "SKIPPED" ELSE result
    /\ UNCHANGED <<other_vars, listing, photo_count, sent, gdrive, yadisk, google_folder_files_list,
                   yandex_folder_files_list, files_list, photo, file_name, i,
                   image_data, taken, manifest_file, attempts, uploaded,
                   rejected, resolved, last_add, retry_count,
                   max_retry_count>>

\* lines 157-161 and 165-166: upload_file returns the file;
\* file_update_data has put the buffer back where it was
GoogleUploaded ==
    /\ pc = "google"
    /\ gdrive = "GoogleDriveItem"
    /\ ~HasChecksum(google_folder_files_list, photo.md5)
    /\ attempts' = attempts + 1
    /\ google_folder_files_list' =
           RecordUpload(google_folder_files_list, photo.md5, file_name)
    /\ uploaded' = Logged(GoogleDisk)
    /\ files_list' = FileListAdd(files_list, file_name, photo.size,
                                 photo.md5, GoogleDisk)
    /\ IF FileListAddRaises(files_list, file_name, photo.md5, GoogleDisk)
       THEN Continue("google", "google_done")
       ELSE Break("google_done")
    /\ result' = "SUCCESS"
    /\ sent' = BytesSent
    /\ UNCHANGED <<other_vars, listing, photo_count, gdrive, yadisk, yandex_folder_files_list, photo, file_name,
                   i, image_data, taken, manifest_file, rejected, resolved,
                   last_add, retry_count, max_retry_count>>

\* a faulty variant of GoogleQuotaExceeded: the handler disables both
\* destinations
GoogleQuotaDisablesBoth ==
    /\ pc = "google"
    /\ gdrive = "GoogleDriveItem"
    /\ ~HasChecksum(google_folder_files_list, photo.md5)
    /\ attempts' = attempts + 1
    /\ gdrive' = "None"
    /\ yadisk' = IF yadisk = "YaDisk" THEN "None" ELSE yadisk
    /\ Continue("google", "google_done")
    /\ result' = "FAILED"
    /\ UNCHANGED <<other_vars, listing, photo_count, sent, google_folder_files_list,
                   yandex_folder_files_list, files_list, photo, file_name, i,
                   image_data, taken, manifest_file, uploaded, rejected,
                   resolved, last_add, retry_count, max_retry_count>>

\* lines 162-164: the API answers 403 storageQuotaExceeded
GoogleQuotaExceeded ==
    /\ pc = "google"
    /\ gdrive = "GoogleDriveItem"
    /\ ~HasChecksum(google_folder_files_list, photo.md5)
    /\ attempts' = attempts + 1
    /\ gdrive' = "None"
    /\ Continue("google", "google_done")
    /\ result' = "FAILED"
    /\ UNCHANGED <<other_vars, listing, photo_count, sent, yadisk, google_folder_files_list,
                   yandex_folder_files_list, files_list, photo, file_name, i,
                   image_data, taken, manifest_file, uploaded, rejected,
                   resolved, last_add, retry_count, max_retry_count>>

\* lines 167-168: the API answers another error (or upload_file raises before
\* it sends the data); the buffer is where it was
GoogleError ==
    /\ pc = "google"
    /\ gdrive = "GoogleDriveItem"
    /\ ~HasChecksum(google_folder_files_list, photo.md5)
    /\ attempts' = attempts + 1
    /\ Continue("google", "google_done")
    /\ result' = Outcome(result, attempts + 1)
    /\ UNCHANGED <<other_vars, listing, photo_count, sent, gdrive, yadisk, google_folder_files_list,
                   yandex_folder_files_list, files_list, photo, file_name, i,
                   image_data, taken, manifest_file, uploaded, rejected,
                   resolved, last_add, retry_count, max_retry_count>>

\* lines 167-168 with google.py 151-152: requests.patch raises while it
\* sends the buffer, so buffer.seek(cursor) is not reached; the buffer stays
\* wherever the transfer left it
GoogleConnectionError ==
    /\ pc = "google"
    /\ gdrive = "GoogleDriveItem"
    /\ ~HasChecksum(google_folder_files_list, photo.md5)
    /\ attempts' = attempts + 1
    /\ \E cursor \in image_data..ContentLen : image_data' = cursor
    /\ Continue("google", "google_done")
    /\ result' = Outcome(result, attempts + 1)
    /\ sent' = BytesSent
    /\ UNCHANGED <<other_vars, listing, photo_count, gdrive, yadisk, google_folder_files_list,
                   yandex_folder_files_list, files_list, photo, file_name, i,
                   taken, manifest_file, uploaded, rejected, resolved,
                   last_add, retry_count, max_retry_count>>

(* ------------------------ Yandex Disk, lines 169-187 ------------------- *)

\* line 171 is false: yadisk is False (not selected) or None (disabled)
YandexOff ==
    /\ pc = "yandex"
    /\ yadisk # "YaDisk"
    /\ Continue("yandex", "yandex_done")
    /\ result' = Outcome(result, attempts)
    /\ UNCHANGED <<other_vars, listing, photo_count, sent, gdrive, yadisk, google_folder_files_list,
                   yandex_folder_files_list, files_list, photo, file_name, i,
                   image_data, taken, manifest_file, attempts, uploaded,
                   rejected, resolved, last_add, retry_count,
                   max_retry_count>>

\* lines 172-175: the checksum is in the inventory
YandexSkip ==
    /\ pc = "yandex"
    /\ yadisk = "YaDisk"
    /\ HasChecksum(yandex_folder_files_list, photo.md5)
    /\ Break("yandex_done")
    /\ result' = IF result = "PENDING" THEN "SKIPPED" ELSE result
    /\ UNCHANGED <<other_vars, listing, photo_count, sent, gdrive, yadisk, google_folder_files_list,
                   yandex_folder_files_list, files_list, photo, file_name, i,
                   image_data, taken, manifest_file, attempts, uploaded,
                   rejected, resolved, last_add, retry_count,
                   max_retry_count>>

\* line 176 with yandex.py 94-102: yadisk.upload(..., max_retry_count=1) is
\* called, _get_upload_link returns the link, the PUT loop is entered
YandexUpload ==
    /\ pc = "yandex"
    /\ yadisk = "YaDisk"
    /\ ~HasChecksum(yandex_folder_files_list, photo.md5)
    /\ attempts' = attempts + 1
    /\ max_retry_count' = 1
    /\ retry_count' = 0
    /\ pc' = "yandex_put"
    /\ UNCHANGED <<other_vars, listing, photo_count, sent, gdrive, yadisk, google_folder_files_list,
                   yandex_folder_files_list, files_list, photo, file_name, i,
                   image_data, retry, taken, manifest_file, result, uploaded,
                   rejected, resolved, last_add>>

\* line 176 with yandex.py 47-50: _get_upload_link raises (an API error or a
\* connection error) before the buffer is read; lines 186-187 catch it
YandexLinkError ==
    /\ pc = "yandex"
    /\ yadisk = "YaDisk"
    /\ ~HasChecksum(yandex_folder_files_list, photo.md5)
    /\ attempts' = attempts + 1
    /\ Continue("yandex", "yandex_done")
    /\ result' = Outcome(result, attempts + 1)
    /\ UNCHANGED <<other_vars, listing, photo_count, sent, gdrive, yadisk, google_folder_files_list,
                   yandex_folder_files_list, files_list, photo, file_name, i,
                   image_data, taken, manifest_file, uploaded, rejected,
                   resolved, last_add, retry_count, max_retry_count>>

\* a faulty variant of YandexPutCreated: files_list.add is called before the
\* inventory is updated, so a raising add leaves the upload unrecorded
YandexPutCreatedAddsFirst ==
    /\ pc = "yandex_put"
    /\ image_data' = ContentLen
    /\ yandex_folder_files_list' =
           IF FileListAddRaises(files_list, file_name, photo.md5, YandexDisk)
           THEN yandex_folder_files_list
           ELSE RecordUpload(yandex_folder_files_list, photo.md5, file_name)
    /\ uploaded' = Logged(YandexDisk)
    /\ files_list' = FileListAdd(files_list, file_name, photo.size,
                                 photo.md5, YandexDisk)
    /\ IF FileListAddRaises(files_list, file_name, photo.md5, YandexDisk)
       THEN Continue("yandex", "yandex_done")
       ELSE Break("yandex_done")
    /\ result' = "SUCCESS"
    /\ sent' = BytesSent
    /\ UNCHANGED <<other_vars, listing, photo_count, gdrive, yadisk,
                   google_folder_files_list, photo, file_name, i, taken,
                   manifest_file, attempts, rejected, resolved, last_add,
                   retry_count, max_retry_count>>

\* yandex.py 104-106 then main.py 177-180, 184-185: the PUT answers 201 or
\* 202; requests has read the buffer to its end
YandexPutCreated ==
    /\ pc = "yandex_put"
    /\ image_data' = ContentLen
    /\ yandex_folder_files_list' =
           RecordUpload(yandex_folder_files_list, photo.md5, file_name)
    /\ uploaded' = Logged(YandexDisk)
    /\ files_list' = FileListAdd(files_list, file_name, photo.size,
                                 photo.md5, YandexDisk)
    /\ IF FileListAddRaises(files_list, file_name, photo.md5, YandexDisk)
       THEN Continue("yandex", "yandex_done")
       ELSE Break("yandex_done")
    /\ result' = "SUCCESS"
    /\ sent' = BytesSent
    /\ UNCHANGED <<other_vars, listing, photo_count, gdrive, yadisk, google_folder_files_list, photo, file_name,
                   i, taken, manifest_file, attempts, rejected, resolved,
                   last_add, retry_count, max_retry_count>>

\* yandex.py 114-117 then main.py 181-183: the PUT answers 507
YandexPutInsufficientStorage ==
    /\ pc = "yandex_put"
    /\ image_data' = ContentLen
    /\ yadisk' = "None"
    /\ Continue("yandex", "yandex_done")
    /\ result' = "FAILED"
    /\ sent' = BytesSent
    /\ UNCHANGED <<other_vars, listing, photo_count, gdrive, google_folder_files_list,
                   yandex_folder_files_list, files_list, photo, file_name, i,
                   taken, manifest_file, attempts, uploaded, rejected,
                   resolved, last_add, retry_count, max_retry_count>>

\* yandex.py 107-113 then main.py 186-187: the PUT answers 412 or 413
YandexPutRefused ==
    /\ pc = "yandex_put"
    /\ image_data' = ContentLen
    /\ Continue("yandex", "yandex_done")
    /\ result' = Outcome(result, attempts)
    /\ sent' = BytesSent
    /\ UNCHANGED <<other_vars, listing, photo_count, gdrive, yadisk, google_folder_files_list,
                   yandex_folder_files_list, files_list, photo, file_name, i,
                   taken, manifest_file, attempts, uploaded, rejected,
                   resolved, last_add, retry_count, max_retry_count>>

\* number of PUT requests of one call of YaDisk.upload that are explored
MaxPuts == 3

\* yandex.py 118-123: the PUT answers any other status; retry_count is
\* incremented and the call raises when it equals max_retry_count, else the
\* PUT is sent again (main.py 186-187 catch the exception)
YandexPutOtherStatus ==
    /\ pc = "yandex_put"
    /\ retry_count < MaxPuts
    /\ image_data' = ContentLen
    /\ sent' = BytesSent
    /\ retry_count' = retry_count + 1
    /\ IF retry_count + 1 = max_retry_count
       THEN /\ Continue("yandex", "yandex_done")
            /\ result' = Outcome(result, attempts)
       ELSE /\ UNCHANGED <<other_vars, listing, photo_count, pc, retry, result>>
    /\ UNCHANGED <<other_vars, listing, photo_count, gdrive, yadisk, google_folder_files_list,
                   yandex_folder_files_list, files_list, photo, file_name, i,
                   taken, manifest_file, attempts, uploaded, rejected,
                   resolved, last_add, max_retry_count>>

\* yandex.py 104 then main.py 186-187: requests.put raises while it sends the
\* buffer; the buffer stays wherever the transfer left it
YandexPutConnectionError ==
    /\ pc = "yandex_put"
    /\ \E cursor \in image_data..ContentLen : image_data' = cursor
    /\ Continue("yandex", "yandex_done")
    /\ result' = Outcome(result, attempts)
    /\ sent' = BytesSent
    /\ UNCHANGED <<other_vars, listing, photo_count, gdrive, yadisk, google_folder_files_list,
                   yandex_folder_files_list, files_list, photo, file_name, i,
                   taken, manifest_file, attempts, uploaded, rejected,
                   resolved, last_add, retry_count, max_retry_count>>

(* --------------------------- specification ---------------------------- *)

Next ==
    \/ NextPhoto
    \/ PhotoLinkBroken
    \/ GoogleDone
    \/ YandexDone
    \/ SaveToFile
    \/ ResolveGoogle
    \/ ResolveYandex
    \/ ResolveBreak
    \/ GoogleOff
    \/ GoogleSkip
    \/ GoogleUploaded
    \/ GoogleQuotaExceeded
    \/ GoogleError
    \/ GoogleConnectionError
    \/ YandexOff
    \/ YandexSkip
    \/ YandexUpload
    \/ YandexLinkError
    \/ YandexPutCreated
    \/ YandexPutInsufficientStorage
    \/ YandexPutRefused
    \/ YandexPutOtherStatus
    \/ YandexPutConnectionError

Spec == Init /\ [][Next]_vars

(* ------------------- FileList on its own (db.py) ---------------------- *)

\* arguments of FileList.add.  As in main.py a name holds a "." and a
\* checksum, a hex digest, holds none: no name is also a checksum
FLNames == {<<"5", ".", "jpg">>, <<"7", ".", "jpg">>, <<"9", ".", "jpg">>}

FLChecksums == {<<"abc">>, <<"def">>}

FLDisks == {"A", "B"}

\* FileList(): self._items = [] (no path is given, nothing is loaded)
FLInit ==
    /\ files_list = <<>>
    /\ last_add = NoAdd
    /\ pc = "filelist"
    /\ gdrive = "False"
    /\ yadisk = "False"
    /\ google_folder_files_list = EmptyDict
    /\ yandex_folder_files_list = EmptyDict
    /\ photo = NoPhoto
    /\ file_name = <<>>
    /\ i = 0
    /\ image_data = 0
    /\ retry = 0
    /\ taken = 0
    /\ manifest_file = [writes |-> 0, items |-> <<>>]
    /\ attempts = 0
    /\ result = "PENDING"
    /\ sent = -1
    /\ uploaded = EmptyDict
    /\ rejected = {}
    /\ resolved = NoSnapshot
    /\ retry_count = 0
    /\ max_retry_count = 0
    /\ listing = [google |-> <<>>, yandex |-> <<>>]
    /\ photo_count = 0
    /\ Idle

\* one call of FileList.add with its effect on self._items
AddCall(name, size, checksum, disk) ==
    /\ files_list' = FileListAdd(files_list, name, size, checksum, disk)
    /\ last_add' = [name |-> name, size |-> size, checksum |-> checksum,
                    disk |-> disk,
                    raised |-> FileListAddRaises(files_list, name, checksum,
                                                 disk),
                    before |-> files_list]
    /\ UNCHANGED <<other_vars, listing, photo_count, gdrive, yadisk, google_folder_files_list,
                   yandex_folder_files_list, photo, file_name, i, image_data,
                   retry, pc, taken, manifest_file, attempts, result, sent,
                   uploaded, rejected, resolved, retry_count,
                   max_retry_count>>

\* db.py 60-64 and 66-71: add returns
FileListAddReturns ==
    /\ pc = "filelist"
    /\ \E name \in FLNames, size \in Sizes, checksum \in FLChecksums,
          disk \in FLDisks :
          /\ ~FileListAddRaises(files_list, name, checksum, disk)
          /\ AddCall(name, size, checksum, disk)

\* db.py 60-65: add raises FileAlreadyExistInFileList
FileListAddFails ==
    /\ pc = "filelist"
    /\ \E name \in FLNames, size \in Sizes, checksum \in FLChecksums,
          disk \in FLDisks :
          /\ FileListAddRaises(files_list, name, checksum, disk)
          /\ AddCall(name, size, checksum, disk)

FLNext == FileListAddReturns \/ FileListAddFails

FLSpec == FLInit /\ [][FLNext]_vars

(* ------------------ folders with more than one file ------------------- *)

\* number of entries of a folder listing when the listings are explored for
\* their own sake
MaxFolder == 2

\* an item of gdrive.api.files_list: md5Checksum is absent for some items
GoogleItems == [md5 : {<<"a">>, <<"s">>, NoMd5}, name : ListingNames]

\* an item of yadisk.files_list
YandexItems == [md5 : {<<"a">>, <<"s">>}, name : ListingNames]

\* lines 59-115 with folders of up to MaxFolder files and one photo to load
FolderInit ==
    /\ gdrive \in {"GoogleDriveItem", "False"}
    /\ yadisk \in {"YaDisk", "False"}
    /\ ~(gdrive = "False" /\ yadisk = "False")
    /\ \E lg \in UNION {[1..n -> GoogleItems] : n \in 0..MaxFolder},
          ly \in UNION {[1..n -> YandexItems] : n \in 0..MaxFolder} :
          listing = [google |-> IF gdrive = "GoogleDriveItem" THEN lg ELSE <<>>,
                     yandex |-> IF yadisk = "YaDisk" THEN ly ELSE <<>>]
    /\ google_folder_files_list = BuildInventory(listing.google)
    /\ yandex_folder_files_list = BuildInventory(listing.yandex)
    /\ photo_count = 1
    /\ files_list = <<>>
    /\ photo = NoPhoto
    /\ file_name = <<>>
    /\ i = 0
    /\ image_data = 0
    /\ retry = 0
    /\ pc = "for_photo"
    /\ taken = 0
    /\ manifest_file = [writes |-> 0, items |-> <<>>]
    /\ attempts = 0
    /\ result = "PENDING"
    /\ sent = -1
    /\ uploaded = EmptyDict
    /\ rejected = {}
    /\ resolved = NoSnapshot
    /\ last_add = NoAdd
    /\ retry_count = 0
    /\ max_retry_count = 0
    /\ Idle

\* the first photo up to the end of its name resolution
FolderNext == NextPhoto \/ ResolveGoogle \/ ResolveYandex \/ ResolveBreak

FolderSpec == FolderInit /\ [][FolderNext]_vars

(* --------------- a longer run on both destinations -------------------- *)

\* lines 59-115 with both destinations selected, a Google folder that holds
\* one file, an empty Yandex folder and one photo more to load
LongInit ==
    /\ gdrive = "GoogleDriveItem"
    /\ yadisk = "YaDisk"
    /\ listing = [google |-> << [md5 |-> <<"c">>,
                                 name |-> <<"7", ".", "jpg">>] >>,
                  yandex |-> <<>>]
    /\ google_folder_files_list = BuildInventory(listing.google)
    /\ yandex_folder_files_list = BuildInventory(listing.yandex)
    /\ photo_count = MaxPhotos + 1
    /\ files_list = <<>>
    /\ photo = NoPhoto
    /\ file_name = <<>>
    /\ i = 0
    /\ image_data = 0
    /\ retry = 0
    /\ pc = "for_photo"
    /\ taken = 0
    /\ manifest_file = [writes |-> 0, items |-> <<>>]
    /\ attempts = 0
    /\ result = "PENDING"
    /\ sent = -1
    /\ uploaded = EmptyDict
    /\ rejected = {}
    /\ resolved = NoSnapshot
    /\ last_add = NoAdd
    /\ retry_count = 0
    /\ max_retry_count = 0
    /\ Idle

LongSpec == LongInit /\ [][Next]_vars

(* --------------------------- checksum alone --------------------------- *)

\* number of bytes of a buffer
MaxBytes == 4

Bytes == {"x", "y"}

\* buffers at any read position
Buffers ==
    UNION { [data : [1..n -> Bytes], pos : 0..n] : n \in 0..MaxBytes }

\* a buffer as read_bytes() returns it, at its start (vk.py 286-294);
\* image_data holds it, bytes and position
ChecksumInit ==
    /\ image_data \in {buffer \in Buffers : buffer.pos = 0}
    /\ photo = NoPhoto
    /\ pc = "checksum"
    /\ gdrive = "False"
    /\ yadisk = "False"
    /\ google_folder_files_list = EmptyDict
    /\ yandex_folder_files_list = EmptyDict
    /\ files_list = <<>>
    /\ file_name = <<>>
    /\ i = 0
    /\ retry = 0
    /\ taken = 0
    /\ manifest_file = [writes |-> 0, items |-> <<>>]
    /\ attempts = 0
    /\ result = "PENDING"
    /\ sent = -1
    /\ uploaded = EmptyDict
    /\ rejected = {}
    /\ resolved = NoSnapshot
    /\ last_add = NoAdd
    /\ retry_count = 0
    /\ max_retry_count = 0
    /\ listing = [google |-> <<>>, yandex |-> <<>>]
    /\ photo_count = 0
    /\ Idle

\* line 124: md5 = checksum(image_data)
ChecksumCall ==
    /\ pc = "checksum"
    /\ photo' = [photo EXCEPT !.md5 = ChecksumOf(image_data).result]
    /\ image_data' = ChecksumOf(image_data).buffer
    /\ UNCHANGED <<other_vars, listing, photo_count, gdrive, yadisk,
                   google_folder_files_list, yandex_folder_files_list,
                   files_list, file_name, i, retry, pc, taken, manifest_file,
                   attempts, result, sent, uploaded, rejected, resolved,
                   last_add, retry_count, max_retry_count>>

\* a reader (an upload) takes some bytes of the buffer: the position moves
\* on, and the digest computed before is no longer that of this buffer
BufferReadBytes ==
    /\ pc = "checksum"
    /\ \E n \in (image_data.pos + 1)..Len(image_data.data) :
          image_data' = BufferSeek(image_data, n)
    /\ photo' = NoPhoto
    /\ UNCHANGED <<other_vars, listing, photo_count, gdrive, yadisk,
                   google_folder_files_list, yandex_folder_files_list,
                   files_list, file_name, i, retry, pc, taken, manifest_file,
                   attempts, result, sent, uploaded, rejected, resolved,
                   last_add, retry_count, max_retry_count>>

ChecksumNext == ChecksumCall \/ BufferReadBytes

ChecksumSpec == ChecksumInit /\ [][ChecksumNext]_vars

(* ------------- the accounts behind the two folder listings ------------- *)

\* number of files of an account when the listings are derived from it
MaxAccount == 2

\* where a file of an account lies: in the configured folder, in a folder
\* below it, or in another folder of the account
Places == {"folder", "folder/sub", "other"}

\* a file of the Google account: md5Checksum, name and the folder it is in
GoogleFiles == [md5 : {<<"a">>, NoMd5}, name : {<<"7", ".", "jpg">>},
                parents : Places]

\* a file of the Yandex account; its path is the place followed by the name
YandexFiles == [md5 : {<<"a">>}, name : {<<"7", ".", "jpg">>},
                path : {<<"disk:/", pl, "/">> \o <<"7", ".", "jpg">> :
                            pl \in Places}]

\* no search query was passed to GoogleDriveAPIv3.files_list
NoQuery == <<>>

\* GoogleDriveAPIv3.files_list: q is sent only when a search query was
\* given; without it the request lists the files of the whole account
GoogleFilesList(files, search_query) ==
    IF search_query # NoQuery
    THEN SelectSeq(files, LAMBDA item : item.parents = search_query)
    ELSE files

\* YaDisk.files_list: of the flat list of the account's files, the items
\* whose path is the folder path followed by the item's name
YandexFilesList(files, folder_path) ==
    SelectSeq(files, LAMBDA item :
        item.path = <<"disk:/", folder_path, "/">> \o item.name)

\* lines 88-115 with the listings taken from accounts of up to MaxAccount
\* files, both destinations selected and one photo to load
AccountInit ==
    /\ gdrive = "GoogleDriveItem"
    /\ yadisk = "YaDisk"
    /\ \E ag \in UNION {[1..n -> GoogleFiles] : n \in 0..MaxAccount},
          ay \in UNION {[1..n -> YandexFiles] : n \in 0..MaxAccount} :
          listing = [google |-> GoogleFilesList(ag, NoQuery),
                     yandex |-> YandexFilesList(ay, "folder")]
    /\ google_folder_files_list = BuildInventory(listing.google)
    /\ yandex_folder_files_list = BuildInventory(listing.yandex)
    /\ photo_count = 1
    /\ files_list = <<>>
    /\ photo = NoPhoto
    /\ file_name = <<>>
    /\ i = 0
    /\ image_data = 0
    /\ retry = 0
    /\ pc = "for_photo"
    /\ taken = 0
    /\ manifest_file = [writes |-> 0, items |-> <<>>]
    /\ attempts = 0
    /\ result = "PENDING"
    /\ sent = -1
    /\ uploaded = EmptyDict
    /\ rejected = {}
    /\ resolved = NoSnapshot
    /\ last_add = NoAdd
    /\ retry_count = 0
    /\ max_retry_count = 0
    /\ Idle

AccountSpec == AccountInit /\ [][Next]_vars

(* --------------------------- OAuth tokens ------------------------------ *)

\* an optional value that is present
Some(x) == <<x>>

\* OAuthToken.is_expired: a token without expires_at (None or 0) is never
\* expired; else it is when it lives for less than elapsed seconds more
IsExpired(token, t, elapsed) ==
    /\ token.expires_at # None
    /\ token.expires_at[1] # 0
    /\ token.expires_at[1] - t < elapsed

\* what the token endpoint answers to a refresh request: an answer without
\* access_token, or a new access token with its lifetime
RefreshAnswers ==
    {[access_token |-> None, expires_in |-> 0],
     [access_token |-> <<"g2">>, expires_in |-> 3599]}

\* GoogleToken.refresh: the token after the call, the value returned and
\* the requests made to the token endpoint
Refresh(token, t, answer) ==
    IF token.refresh_token = None
    THEN [token |-> token, value |-> None, asked |-> <<>>]
    ELSE IF answer.access_token = None
    THEN [token |-> token, value |-> None, asked |-> <<"refresh">>]
    ELSE [token |-> [token EXCEPT !.access_token = answer.access_token,
                                  !.expires_at = Some(t + answer.expires_in)],
          value |-> answer.access_token,
          asked |-> <<"refresh">>]

\* a faulty variant of AccessToken: the stored value whatever its age
AccessTokenStored(token, t, answer) ==
    [token |-> token, value |-> token.access_token, asked |-> <<>>]

\* the property OAuthToken.access_token
AccessToken(token, t, answer) ==
    IF IsExpired(token, t, 10)
    THEN LET r == Refresh(token, t, answer)
         IN  IF r.value # None
             THEN [token |-> r.token, value |-> r.token.access_token,
                   asked |-> r.asked]
             ELSE [token |-> r.token, value |-> None, asked |-> r.asked]
    ELSE [token |-> token, value |-> token.access_token, asked |-> <<>>]

\* GoogleToken.is_valid: the request is made with self.access_token; an
\* error answer is followed by a refresh, 200 is valid, anything else
\* returns None
IsValid(token, t, answer1, response, answer2) ==
    LET a == AccessToken(token, t, answer1)
    IN  IF response = "error"
        THEN LET r == Refresh(a.token, t, answer2)
             IN  [token |-> r.token,
                  value |-> IF r.value # None THEN "True" ELSE "False"]
        ELSE [token |-> a.token,
              value |-> IF response = "200" THEN "True" ELSE "None"]

\* OAuthToken.from_dict: None for no dictionary or one without access token
FromDict(params) ==
    IF params = None THEN None
    ELSE IF params[1].access_token = None THEN None
    ELSE Some([access_token |-> params[1].access_token,
               refresh_token |-> params[1].refresh_token,
               expires_at |-> params[1].expires_at])

(* ------------------ choice of destinations, lines 52-78 ---------------- *)

\* the time of the run
StartTime == 100

\* what config.yaml can hold under google_token
ConfigTokens ==
    {None} \cup
    {Some(d) : d \in [access_token : {None, <<"g">>},
                      refresh_token : {None, <<"r">>},
                      expires_at : {None, Some(StartTime + 5),
                                    Some(StartTime + 3000)}]}

\* the script has the VK user and is about to ask for the destinations
SelectInit ==
    /\ pc = "select"
    /\ gdrive = "False"
    /\ yadisk = "False"
    /\ user_input = 0
    /\ \E g \in ConfigTokens, y \in {None, <<"y">>} :
          config = [google_token |-> g, yandex_token |-> y]
    /\ google_token = None
    /\ now = StartTime
    /\ returned = None
    /\ asked = <<>>
    /\ VkIdle
    /\ DriveIdle
    /\ ApiIdle
    /\ google_folder_files_list = EmptyDict
    /\ yandex_folder_files_list = EmptyDict
    /\ files_list = <<>>
    /\ photo = NoPhoto
    /\ file_name = <<>>
    /\ i = 0
    /\ image_data = 0
    /\ retry = 0
    /\ taken = 0
    /\ manifest_file = [writes |-> 0, items |-> <<>>]
    /\ attempts = 0
    /\ result = "PENDING"
    /\ sent = -1
    /\ uploaded = EmptyDict
    /\ rejected = {}
    /\ resolved = NoSnapshot
    /\ last_add = NoAdd
    /\ retry_count = 0
    /\ max_retry_count = 0
    /\ listing = [google |-> <<>>, yandex |-> <<>>]
    /\ photo_count = 0

\* lines 52-63: the destinations are chosen, a missing Yandex token is
\* typed in, the Google token is read from the configuration
SelectDestination ==
    /\ pc = "select"
    /\ \E answer \in {1, 2, 3} :
          /\ user_input' = answer
          /\ yadisk' = IF answer \in {1, 3} THEN "True" ELSE "False"
          /\ gdrive' = IF answer \in {2, 3} THEN "True" ELSE "False"
          /\ config' = IF answer \in {1, 3} /\ config.yandex_token = None
                       THEN [config EXCEPT !.yandex_token = <<"y">>]
                       ELSE config
    /\ google_token' = FromDict(config.google_token)
    /\ pc' = "token_check"
    /\ UNCHANGED <<loop_vars, vk_vars, drive_vars, api_vars, now, returned, asked>>

\* line 64, "gdrive and not google_token" is true: nothing else is evaluated
TokenMissing ==
    /\ pc = "token_check"
    /\ gdrive = "True"
    /\ google_token = None
    /\ pc' = "ask_google"
    /\ UNCHANGED <<loop_vars, vk_vars, drive_vars, api_vars, gdrive, yadisk, token_vars>>

\* line 64, Google was not selected and there is no token:
\* "not google_token.is_valid()" is evaluated on None and raises
TokenCheckRaises ==
    /\ pc = "token_check"
    /\ gdrive = "False"
    /\ google_token = None
    /\ pc' = "crashed"
    /\ UNCHANGED <<loop_vars, vk_vars, drive_vars, api_vars, gdrive, yadisk, token_vars>>

\* line 64, there is a token: google_token.is_valid() is called, whether
\* Google was selected or not
TokenValidated ==
    /\ pc = "token_check"
    /\ google_token # None
    /\ \E answer1 \in RefreshAnswers, answer2 \in RefreshAnswers,
          response \in {"200", "error", "other"} :
          LET v == IsValid(google_token[1], now, answer1, response, answer2)
          IN  /\ google_token' = Some(v.token)
              /\ returned' = <<v.value>>
              /\ pc' = IF v.value = "True" THEN "check_destinations"
                       ELSE "ask_google"
    /\ asked' = Append(asked, "is_valid")
    /\ UNCHANGED <<loop_vars, vk_vars, drive_vars, api_vars, gdrive, yadisk, user_input, config, now>>

\* lines 65-68: the user does not want to get a Google token
AskGoogleDeclined ==
    /\ pc = "ask_google"
    /\ asked' = Append(asked, "input")
    /\ gdrive' = "False"
    /\ config' = [config EXCEPT !.google_token = None]
    /\ pc' = "check_destinations"
    /\ UNCHANGED <<loop_vars, vk_vars, drive_vars, api_vars, yadisk, user_input, google_token, now, returned>>

\* lines 65, 69-75: the user agrees, receive_token_google returns a token
AskGoogleReceived ==
    /\ pc = "ask_google"
    /\ asked' = asked \o <<"input", "receive_token_google">>
    /\ LET token == [access_token |-> <<"g1">>, refresh_token |-> <<"r1">>,
                     expires_at |-> Some(now + 3599)]
       IN  /\ google_token' = Some(token)
           /\ config' = [config EXCEPT !.google_token =
                  Some([token EXCEPT
                            !.access_token =
                                AccessToken(token, now,
                                    CHOOSE a \in RefreshAnswers : TRUE).value])]
    /\ pc' = "check_destinations"
    /\ UNCHANGED <<loop_vars, vk_vars, drive_vars, api_vars, gdrive, yadisk, user_input, now, returned>>

\* lines 65, 70 with oauth.py 234-236: receive_token_google raises
AskGoogleFails ==
    /\ pc = "ask_google"
    /\ asked' = asked \o <<"input", "receive_token_google">>
    /\ pc' = "crashed"
    /\ UNCHANGED <<loop_vars, vk_vars, drive_vars, api_vars, gdrive, yadisk, user_input, config,
                   google_token, now, returned>>

\* lines 76-78: without a destination the script exits
NoDestination ==
    /\ pc = "check_destinations"
    /\ yadisk = "False"
    /\ gdrive = "False"
    /\ pc' = "exited"
    /\ UNCHANGED <<loop_vars, vk_vars, drive_vars, api_vars, gdrive, yadisk, token_vars>>

\* lines 76-79: a destination is left, the script goes on to the folders
DestinationsChosen ==
    /\ pc = "check_destinations"
    /\ ~(yadisk = "False" /\ gdrive = "False")
    /\ pc' = "init_disks"
    /\ UNCHANGED <<loop_vars, vk_vars, drive_vars, api_vars, gdrive, yadisk, token_vars>>

SelectNext ==
    \/ SelectDestination
    \/ TokenMissing
    \/ TokenCheckRaises
    \/ TokenValidated
    \/ AskGoogleDeclined
    \/ AskGoogleReceived
    \/ AskGoogleFails
    \/ NoDestination
    \/ DestinationsChosen

SelectSpec == SelectInit /\ [][SelectNext]_vars

(* ----------------------- YaDisk.upload alone --------------------------- *)

\* the largest max_retry_count a call of YaDisk.upload is explored with
MaxRetryArg == 2

\* yandex.py 83-102: upload was called for a photo with some
\* max_retry_count, the upload link was received and the PUT loop is entered
UploadInit ==
    /\ pc = "yandex_put"
    /\ gdrive = "False"
    /\ yadisk = "YaDisk"
    /\ photo \in Photos
    /\ file_name = BaseName(photo)
    /\ max_retry_count \in 0..MaxRetryArg
    /\ retry_count = 0
    /\ image_data = CursorAfterChecksum(0)
    /\ attempts = 1
    /\ taken = 1
    /\ photo_count = 1
    /\ google_folder_files_list = EmptyDict
    /\ yandex_folder_files_list = EmptyDict
    /\ listing = [google |-> <<>>, yandex |-> <<>>]
    /\ files_list = <<>>
    /\ i = 0
    /\ retry = 0
    /\ manifest_file = [writes |-> 0, items |-> <<>>]
    /\ result = "PENDING"
    /\ sent = -1
    /\ uploaded = EmptyDict
    /\ rejected = {}
    /\ resolved = NoSnapshot
    /\ last_add = NoAdd
    /\ Idle

\* yandex.py 103-123: one PUT of the loop and what follows its answer
UploadNext ==
    \/ YandexPutCreated
    \/ YandexPutInsufficientStorage
    \/ YandexPutRefused
    \/ YandexPutOtherStatus
    \/ YandexPutConnectionError

UploadSpec == UploadInit /\ [][UploadNext]_vars

(* ------------------ VKUser.get_photos_from_albums ---------------------- *)

VK_PHOTOS_MAX_IPR == 1000

VK_MAX_REQUEST_COUNT_IN_CODE == 25

\* number of albums of the argument albums
MaxAlbums == 3

\* the numbers of photos an album can hold
AlbumSizes == {0, 1, 2000, 24000, 26000}

\* the default of the parameter photo_offset
photo_offset == 0

\* line 221: the number of photos to get from the album of the outer loop
Count ==
    IF photo_count # 0 THEN photo_count - photo_offset
    ELSE albums[album] - photo_offset

\* lines 223-231: the parameters of the photos.get call of one iteration
Params ==
    LET estimate_count == Count - offset
    IN  [album_id |-> album, offset |-> offset,
         count |-> IF estimate_count < VK_PHOTOS_MAX_IPR
                   THEN estimate_count ELSE VK_PHOTOS_MAX_IPR]

\* lines 206-218: the function is called as at main.py 114, with up to
\* MaxAlbums albums and with the number of photos asked for (0: all)
AlbumsInit ==
    /\ pc = "for_album"
    /\ albums \in UNION {[1..n -> AlbumSizes] : n \in 1..MaxAlbums}
    /\ photo_count \in {0, 1500}
    /\ album = 0
    /\ offset = 0
    /\ code = <<>>
    /\ limit = None
    /\ executed = <<>>
    /\ generated = <<>>
    /\ gdrive = "False"
    /\ yadisk = "YaDisk"
    /\ google_folder_files_list = EmptyDict
    /\ yandex_folder_files_list = EmptyDict
    /\ listing = [google |-> <<>>, yandex |-> <<>>]
    /\ files_list = <<>>
    /\ photo = NoPhoto
    /\ file_name = <<>>
    /\ i = 0
    /\ image_data = 0
    /\ retry = 0
    /\ taken = 0
    /\ manifest_file = [writes |-> 0, items |-> <<>>]
    /\ attempts = 0
    /\ result = "PENDING"
    /\ sent = -1
    /\ uploaded = EmptyDict
    /\ rejected = {}
    /\ resolved = NoSnapshot
    /\ last_add = NoAdd
    /\ retry_count = 0
    /\ max_retry_count = 0
    /\ TokenIdle
    /\ DriveIdle
    /\ ApiIdle

\* lines 219-222: the next album of the list; limit starts afresh
NextAlbum ==
    /\ pc = "for_album"
    /\ album < Len(albums)
    /\ album' = album + 1
    /\ limit' = Some(VK_MAX_REQUEST_COUNT_IN_CODE)
    /\ offset' = photo_offset
    /\ pc' = "for_i"
    /\ UNCHANGED <<gdrive, yadisk, loop_vars, token_vars, drive_vars,
                   api_vars, albums, code, executed, generated>>

\* lines 222-238: one more photos.get call is put into the script and the
\* limit is not used up
RequestAdded ==
    /\ pc = "for_i"
    /\ offset < Count + photo_offset
    /\ limit[1] - 1 # 0
    /\ code' = Append(code, Params)
    /\ generated' = Append(generated, Params)
    /\ limit' = Some(limit[1] - 1)
    /\ offset' = offset + VK_PHOTOS_MAX_IPR
    /\ UNCHANGED <<gdrive, yadisk, pc, loop_vars, token_vars, drive_vars,
                   api_vars, albums, album, executed>>

\* lines 222-242: one more photos.get call is put into the script, the limit
\* is used up and the script is executed
RequestAddedAndExecuted ==
    /\ pc = "for_i"
    /\ offset < Count + photo_offset
    /\ limit[1] - 1 = 0
    /\ executed' = Append(executed, Append(code, Params))
    /\ generated' = Append(generated, Params)
    /\ code' = <<>>
    /\ limit' = Some(VK_MAX_REQUEST_COUNT_IN_CODE)
    /\ offset' = offset + VK_PHOTOS_MAX_IPR
    /\ UNCHANGED <<gdrive, yadisk, pc, loop_vars, token_vars, drive_vars,
                   api_vars, albums, album>>

\* line 222: the range of the album is exhausted
AlbumDone ==
    /\ pc = "for_i"
    /\ offset >= Count + photo_offset
    /\ pc' = "for_album"
    /\ UNCHANGED <<gdrive, yadisk, loop_vars, token_vars, drive_vars,
                   api_vars, vk_vars>>

\* lines 243-246: after the last album the rest of the script is executed
ExecuteRest ==
    /\ pc = "for_album"
    /\ album = Len(albums)
    /\ limit # None
    /\ limit[1] # 0
    /\ limit[1] # VK_MAX_REQUEST_COUNT_IN_CODE
    /\ executed' = Append(executed, code)
    /\ pc' = "returned"
    /\ UNCHANGED <<gdrive, yadisk, loop_vars, token_vars, drive_vars,
                   api_vars, albums, album, offset, code, limit, generated>>

\* lines 243, 246: the condition of line 243 is false, the function returns
ReturnResult ==
    /\ pc = "for_album"
    /\ album = Len(albums)
    /\ ~( /\ limit # None
          /\ limit[1] # 0
          /\ limit[1] # VK_MAX_REQUEST_COUNT_IN_CODE )
    /\ pc' = "returned"
    /\ UNCHANGED <<gdrive, yadisk, loop_vars, token_vars, drive_vars,
                   api_vars, vk_vars>>

AlbumsNext ==
    \/ NextAlbum
    \/ RequestAdded
    \/ RequestAddedAndExecuted
    \/ AlbumDone
    \/ ExecuteRest
    \/ ReturnResult

AlbumsSpec == AlbumsInit /\ [][AlbumsNext]_vars

(* --------------------- OAuthToken.access_token alone ------------------- *)

\* the seconds of the run that are explored
MaxWait == 40

\* a Google token as from_dict or receive_token_google builds it
Tokens ==
    [access_token : {<<"g">>},
     refresh_token : {None, <<"r">>},
     expires_at : {None, Some(0), Some(StartTime + 5), Some(StartTime + 15),
                   Some(StartTime + 30)}]

\* a token is held and its access_token is about to be read
TokenInit ==
    /\ pc = "token"
    /\ google_token \in {Some(token) : token \in Tokens}
    /\ now = StartTime
    /\ returned = None
    /\ asked = <<>>
    /\ user_input = 0
    /\ config = None
    /\ gdrive = "False"
    /\ yadisk = "False"
    /\ google_folder_files_list = EmptyDict
    /\ yandex_folder_files_list = EmptyDict
    /\ listing = [google |-> <<>>, yandex |-> <<>>]
    /\ files_list = <<>>
    /\ photo = NoPhoto
    /\ file_name = <<>>
    /\ i = 0
    /\ image_data = 0
    /\ retry = 0
    /\ taken = 0
    /\ manifest_file = [writes |-> 0, items |-> <<>>]
    /\ attempts = 0
    /\ result = "PENDING"
    /\ sent = -1
    /\ uploaded = EmptyDict
    /\ rejected = {}
    /\ resolved = NoSnapshot
    /\ last_add = NoAdd
    /\ retry_count = 0
    /\ max_retry_count = 0
    /\ photo_count = 0
    /\ VkIdle
    /\ DriveIdle
    /\ ApiIdle

\* oauth.py 45-54: google_token.access_token is read
AccessTokenCall ==
    /\ pc = "token"
    /\ \E answer \in RefreshAnswers :
          LET a == AccessToken(google_token[1], now, answer)
          IN  /\ google_token' = Some(a.token)
              /\ returned' = a.value
              /\ asked' = a.asked
    /\ pc' = "token_returned"
    /\ UNCHANGED <<gdrive, yadisk, loop_vars, vk_vars, drive_vars, api_vars,
                   user_input, config, now>>

\* time passes until the token is read again
TokenWait ==
    /\ pc = "token_returned"
    /\ now < StartTime + MaxWait
    /\ \E seconds \in {1, 7, 20} : now' = now + seconds
    /\ pc' = "token"
    /\ UNCHANGED <<gdrive, yadisk, loop_vars, vk_vars, drive_vars, api_vars,
                   user_input, config, google_token, returned, asked>>

TokenNext == AccessTokenCall \/ TokenWait

TokenSpec == TokenInit /\ [][TokenNext]_vars

(* ------------------- GoogleDriveItem.create_folder --------------------- *)

\* number of components of the path
MaxDepth == 3

FolderNames == {"a", "b"}

\* the root folder of the account; self of the call at main.py 92 is the
\* GoogleDrive, whose id 'root' stands for it
RootItem == [id |-> 0, name |-> "My Drive", parent |-> -1]

\* self.id
SelfId == RootItem.id

\* the folders an account can hold when the call is made
KnownFolders ==
    {[id |-> 1, name |-> "a", parent |-> 0],
     [id |-> 2, name |-> "b", parent |-> 1],
     [id |-> 3, name |-> "b", parent |-> 0],
     [id |-> 4, name |-> "a", parent |-> 3]}

\* the id the server gives to a new folder
NewId(folders) ==
    1 + Cardinality(KnownFolders) + Cardinality(folders \ KnownFolders)

\* prev.items(name=part): the children of a folder that have the name
Items(folders, parent, name) ==
    {item \in folders : item.name = name /\ item.parent = parent}

\* resolve_next of resolve_path: the names are matched from the last one
\* backwards, each item being a parent of the item resolved before it
RECURSIVE ResolveNext(_, _, _)
ResolveNext(files, items, child) ==
    IF items = <<>> THEN TRUE
    ELSE \E item \in files :
            /\ item.name = items[Len(items)]
            /\ child = None \/ item.id = child[1].parent
            /\ ResolveNext(files, SubSeq(items, 1, Len(items) - 1), Some(item))

\* resolve_path of a path that starts with '/': whether it returns the items
ResolvePath(folders, path) ==
    ResolveNext(folders \cup {RootItem}, <<RootItem.name>> \o path, None)

\* create_folder(path, create_parent_folders=True) is called on the
\* GoogleDrive, as at main.py 92, for a path that starts with '/'
CreateFolderInit ==
    /\ pc = "create_folder"
    /\ drive \in {folders \in SUBSET KnownFolders :
                     \A item \in folders :
                         item.parent = 0 \/ \E f \in folders : f.id = item.parent}
    /\ parts \in UNION {[1..n -> FolderNames] : n \in 1..MaxDepth}
    /\ part = 1
    /\ prev = RootItem.id
    /\ returned = None
    /\ user_input = 0
    /\ config = None
    /\ google_token = None
    /\ now = 0
    /\ asked = <<>>
    /\ gdrive = "GoogleDrive"
    /\ yadisk = "False"
    /\ google_folder_files_list = EmptyDict
    /\ yandex_folder_files_list = EmptyDict
    /\ listing = [google |-> <<>>, yandex |-> <<>>]
    /\ files_list = <<>>
    /\ photo = NoPhoto
    /\ file_name = <<>>
    /\ i = 0
    /\ image_data = 0
    /\ retry = 0
    /\ taken = 0
    /\ manifest_file = [writes |-> 0, items |-> <<>>]
    /\ attempts = 0
    /\ result = "PENDING"
    /\ sent = -1
    /\ uploaded = EmptyDict
    /\ rejected = {}
    /\ resolved = NoSnapshot
    /\ last_add = NoAdd
    /\ retry_count = 0
    /\ max_retry_count = 0
    /\ photo_count = 0
    /\ VkIdle
    /\ ApiIdle

\* lines 338-342, 351: the component exists below prev and is reused
PartFound ==
    /\ pc = "create_folder"
    /\ part <= Len(parts)
    /\ \E current \in Items(drive, prev, parts[part]) : prev' = current.id
    /\ part' = part + 1
    /\ UNCHANGED <<gdrive, yadisk, pc, loop_vars, token_vars, vk_vars,
                   api_vars, drive, parts>>

\* lines 343-345: the last component is missing; it is created with
\* parents [self.id] and returned
LastPartCreated ==
    /\ pc = "create_folder"
    /\ part = Len(parts)
    /\ Items(drive, prev, parts[part]) = {}
    /\ drive' = drive \cup {[id |-> NewId(drive), name |-> parts[part],
                             parent |-> SelfId]}
    /\ returned' = Some(NewId(drive))
    /\ pc' = "returned"
    /\ UNCHANGED <<gdrive, yadisk, loop_vars, vk_vars, api_vars, user_input,
                   config, google_token, now, asked, parts, part, prev>>

\* lines 346-348, 351: a component before the last is missing; it is
\* created with parents [self.id] and becomes prev
ParentCreated ==
    /\ pc = "create_folder"
    /\ part < Len(parts)
    /\ Items(drive, prev, parts[part]) = {}
    /\ drive' = drive \cup {[id |-> NewId(drive), name |-> parts[part],
                             parent |-> SelfId]}
    /\ prev' = NewId(drive)
    /\ part' = part + 1
    /\ UNCHANGED <<gdrive, yadisk, pc, loop_vars, token_vars, vk_vars,
                   api_vars, parts>>

\* line 352: every component existed
AllPartsFound ==
    /\ pc = "create_folder"
    /\ part > Len(parts)
    /\ returned' = Some(prev)
    /\ pc' = "returned"
    /\ UNCHANGED <<gdrive, yadisk, loop_vars, vk_vars, api_vars, user_input,
                   config, google_token, now, asked, drive_vars>>

CreateFolderNext ==
    \/ PartFound
    \/ LastPartCreated
    \/ ParentCreated
    \/ AllPartsFound

CreateFolderSpec == CreateFolderInit /\ [][CreateFolderNext]_vars

(* ------------------------- VKAPI._check_rps ---------------------------- *)

VK_API_MAX_RPS == 3

\* number of requests of a run of the API
MaxRequests == 6

\* the milliseconds of the run that are explored
MaxClock == 2500

\* line 57: the timestamps that are at most one second old
Pruned(log, t) == SelectSeq(log, LAMBDA timestamp : t - timestamp <= 1000)

\* a faulty variant of SleepTime: the request is never delayed
SleepTimeNone(log, t) == 0

\* lines 58-61: the time to sleep, in milliseconds, given the pruned log
SleepTime(log, t) ==
    IF Len(log) = VK_API_MAX_RPS
    THEN LET delta == t - log[1]
         IN  IF delta <= 1000 THEN 1001 - delta ELSE 0
    ELSE 0

\* VKAPI.__init__: an API object that has made no request yet
ApiInit ==
    /\ pc = "vkapi"
    /\ request_log = <<>>
    /\ sent_at = <<>>
    /\ now \in {0, 1}
    /\ returned = None
    /\ user_input = 0
    /\ config = None
    /\ google_token = None
    /\ asked = <<>>
    /\ gdrive = "False"
    /\ yadisk = "False"
    /\ google_folder_files_list = EmptyDict
    /\ yandex_folder_files_list = EmptyDict
    /\ listing = [google |-> <<>>, yandex |-> <<>>]
    /\ files_list = <<>>
    /\ photo = NoPhoto
    /\ file_name = <<>>
    /\ i = 0
    /\ image_data = 0
    /\ retry = 0
    /\ taken = 0
    /\ manifest_file = [writes |-> 0, items |-> <<>>]
    /\ attempts = 0
    /\ result = "PENDING"
    /\ sent = -1
    /\ uploaded = EmptyDict
    /\ rejected = {}
    /\ resolved = NoSnapshot
    /\ last_add = NoAdd
    /\ retry_count = 0
    /\ max_retry_count = 0
    /\ photo_count = 0
    /\ VkIdle
    /\ DriveIdle

\* lines 55-66: _get calls _check_rps, which prunes the log, sleeps when the
\* log is full, logs the time it then reads, and the request is sent; sleep
\* may last longer than asked
CheckRps ==
    /\ pc = "vkapi"
    /\ Len(sent_at) < MaxRequests
    /\ LET log == Pruned(request_log, now)
       IN  \E late \in {0, 1} :
              /\ now' = now + SleepTime(log, now) + late
              /\ request_log' = Append(log, now')
              /\ sent_at' = Append(sent_at, now')
    /\ UNCHANGED <<gdrive, yadisk, pc, loop_vars, vk_vars, drive_vars,
                   user_input, config, google_token, returned, asked>>

\* time passes between two requests
ApiWait ==
    /\ pc = "vkapi"
    /\ now < MaxClock
    /\ \E milliseconds \in {400, 1000} : now' = now + milliseconds
    /\ UNCHANGED <<gdrive, yadisk, pc, loop_vars, vk_vars, drive_vars,
                   api_vars, user_input, config, google_token, returned,
                   asked>>

ApiNext == CheckRps \/ ApiWait

ApiSpec == ApiInit /\ [][ApiNext]_vars

(* ============================ properties ============================== *)

Unrecorded ==
    UNCHANGED <<files_list, google_folder_files_list,
                yandex_folder_files_list, uploaded>>

(* C1: when the checksum of the photo is a key of the destination's        *)
(* inventory as the destination is processed, the pair is SKIPPED: the     *)
(* step makes no upload call and leaves the manifest and the inventories   *)
(* as they are                                                             *)
C1_SkipWhenChecksumKnown ==
    [][ /\ ( /\ pc = "google"
             /\ gdrive = "GoogleDriveItem"
             /\ result = "PENDING"
             /\ photo.md5 \in DOMAIN google_folder_files_list )
           => ( /\ result' = "SKIPPED"
                /\ pc' = "google_done"
                /\ attempts' = attempts
                /\ sent' = sent
                /\ Unrecorded )
        /\ ( /\ pc = "yandex"
             /\ yadisk = "YaDisk"
             /\ result = "PENDING"
             /\ photo.md5 \in DOMAIN yandex_folder_files_list )
           => ( /\ result' = "SKIPPED"
                /\ pc' = "yandex_done"
                /\ attempts' = attempts
                /\ sent' = sent
                /\ Unrecorded ) ]_vars

\* a photo named 10.jpg is skipped on Google, where its checksum is listed
\* under the name 7.jpg
C1_Witness ==
    /\ pc = "google_done"
    /\ result = "SKIPPED"
    /\ attempts = 0
    /\ photo.likes_count = "10"
    /\ photo.md5 \in DOMAIN google_folder_files_list
    /\ google_folder_files_list[photo.md5] = <<"7", ".", "jpg">>

(* C2: over a run, a destination receives at most one successful upload    *)
(* of a checksum; a pair whose checksum was uploaded to the destination    *)
(* earlier in the run ends without any upload call                         *)
C2_AtMostOneUploadPerChecksum ==
    /\ \A key \in DOMAIN uploaded : Len(uploaded[key]) <= 1
    /\ ( pc = "google_done" /\ <<GoogleDisk, photo.md5>> \in DOMAIN uploaded )
       => ( \/ result = "SUCCESS"
            \/ attempts = 0 /\ result \in {"SKIPPED", "OFF"} )
    /\ ( pc = "yandex_done" /\ <<YandexDisk, photo.md5>> \in DOMAIN uploaded )
       => ( \/ result = "SUCCESS"
            \/ attempts = 0 /\ result \in {"SKIPPED", "OFF"} )

\* a photo is skipped on Yandex because an earlier photo of the run with the
\* same checksum was uploaded there
C2_Witness ==
    /\ pc = "yandex_done"
    /\ result = "SKIPPED"
    /\ <<YandexDisk, photo.md5>> \in DOMAIN uploaded

(* C3: on one destination no two photos with different checksums are       *)
(* uploaded under the same name                                            *)
C3_UploadedNamesInjective ==
    \A k1 \in DOMAIN uploaded, k2 \in DOMAIN uploaded :
        (k1[1] = k2[1] /\ k1[2] # k2[2])
        => \A m \in 1..Len(uploaded[k1]), n \in 1..Len(uploaded[k2]) :
               uploaded[k1][m] # uploaded[k2][n]

\* two photos with the same like count and different contents were uploaded
\* to Google, the second one under a dated name
C3_Witness ==
    \E k1 \in DOMAIN uploaded, k2 \in DOMAIN uploaded :
        /\ k1[1] = GoogleDisk
        /\ k2[1] = GoogleDisk
        /\ k1[2] # k2[2]
        /\ uploaded[k1][1] = <<"10", ".", "jpg">>
        /\ uploaded[k2][1] = <<"10", "_", "d2", ".", "jpg">>

(* C4: a destination whose every upload call fails transiently is called   *)
(* exactly 3 times for the photo; the pair ends FAILED with nothing         *)
(* recorded in the inventory or the manifest, and the run goes on with the  *)
(* next destination and the next photo                                     *)
C4_TransientFailureRetriedThrice ==
    /\ [](attempts <= RetryCount)
    /\ []( ( pc = "google_done" /\ result = "FAILED"
             /\ gdrive = "GoogleDriveItem" )
           => ( /\ attempts = RetryCount
                /\ photo.md5 \notin DOMAIN google_folder_files_list
                /\ <<GoogleDisk, photo.md5>> \notin DOMAIN uploaded ) )
    /\ []( ( pc = "yandex_done" /\ result = "FAILED" /\ yadisk = "YaDisk" )
           => ( /\ attempts = RetryCount
                /\ photo.md5 \notin DOMAIN yandex_folder_files_list
                /\ <<YandexDisk, photo.md5>> \notin DOMAIN uploaded ) )
    /\ [][ ( pc \in {"google", "yandex", "yandex_put"}
             /\ result' # "SUCCESS" ) => Unrecorded ]_vars
    /\ [][ /\ pc = "google_done" => pc' = "yandex"
           /\ pc = "yandex_done" => pc' = "for_photo" ]_vars

\* three calls of yadisk.upload have failed, the last one after its PUT was
\* answered with a retryable status, and the destination is still enabled
C4_Witness ==
    /\ pc = "yandex_done"
    /\ result = "FAILED"
    /\ yadisk = "YaDisk"
    /\ attempts = 3
    /\ retry_count = 1

(* C5: a quota failure disables the destination that raised it and nothing *)
(* else: a disabled destination stays disabled and gets no further upload  *)
(* call, the other destination's handle is untouched, and an enabled       *)
(* destination is still processed for this photo and for every later one   *)
C5_QuotaDisablesOnlyItsDestination ==
    /\ [][ /\ gdrive = "None" => gdrive' = "None"
           /\ yadisk = "None" => yadisk' = "None" ]_vars
    /\ [][ /\ gdrive' # gdrive
              => ( pc = "google" /\ gdrive' = "None" /\ yadisk' = yadisk
                   /\ result' = "FAILED" )
           /\ yadisk' # yadisk
              => ( pc = "yandex_put" /\ yadisk' = "None" /\ gdrive' = gdrive
                   /\ result' = "FAILED" ) ]_vars
    /\ [][ ( \/ pc = "google" /\ gdrive # "GoogleDriveItem"
             \/ pc = "yandex" /\ yadisk # "YaDisk" )
           => ( attempts' = attempts /\ sent' = sent /\ Unrecorded ) ]_vars
    /\ [](pc = "yandex_put" => yadisk = "YaDisk")
    /\ []( ( pc = "google_done" /\ gdrive = "GoogleDriveItem" )
           => ( /\ result \in {"SKIPPED", "SUCCESS", "FAILED"}
                /\ result # "SKIPPED" => attempts >= 1 ) )
    /\ []( ( pc = "yandex_done" /\ yadisk = "YaDisk" )
           => ( /\ result \in {"SKIPPED", "SUCCESS", "FAILED"}
                /\ result # "SKIPPED" => attempts >= 1 ) )

\* Google was disabled by a quota failure and the second photo of the run
\* has still been uploaded to Yandex
C5_Witness ==
    /\ pc = "yandex_done"
    /\ gdrive = "None"
    /\ yadisk = "YaDisk"
    /\ result = "SUCCESS"
    /\ taken = 2

(* C6: what happens on Google, the destination processed first, does not    *)
(* change what Yandex receives for the photo: a photo that Yandex accepts   *)
(* on the first call of yadisk.upload, whose only PUT is the first read of  *)
(* the buffer by Yandex, is sent with its whole content                     *)
C6_YandexReceivesWholeContent ==
    ( pc = "yandex_done" /\ result = "SUCCESS" /\ attempts = 1 )
    => sent = ContentLen

(* C7: FileList.add(name, size, checksum, disk).  When no entry has the     *)
(* name or the checksum, one entry with disks = [disk] is appended.  When   *)
(* some entry has one of them, no entry is created: either disk is          *)
(* appended to a matching entry that did not list it and nothing is         *)
(* raised, or FileAlreadyExistInFileList is raised for a matching entry     *)
(* that lists disk and the list is unchanged                                *)
C7_AddContract ==
    LET before == last_add.before
        matching == {k \in 1..Len(before) :
                        \/ before[k].file_name = last_add.name
                        \/ before[k].checksum = last_add.checksum}
        Lists(k) == \E m \in 1..Len(before[k].disks) :
                        before[k].disks[m] = last_add.disk
    IN  last_add # NoAdd
        => IF matching = {}
           THEN /\ ~last_add.raised
                /\ files_list =
                       before \o << [file_name |-> last_add.name,
                                     size |-> last_add.size,
                                     checksum |-> last_add.checksum,
                                     disks |-> <<last_add.disk>>] >>
           ELSE /\ Len(files_list) = Len(before)
                /\ IF last_add.raised
                   THEN /\ files_list = before
                        /\ \E k \in matching : Lists(k)
                   ELSE \E k \in matching :
                            /\ ~Lists(k)
                            /\ files_list[k].disks =
                                   before[k].disks \o <<last_add.disk>>
                            /\ files_list[k].file_name = before[k].file_name
                            /\ files_list[k].checksum = before[k].checksum
                            /\ files_list[k].size = before[k].size
                            /\ \A m \in 1..Len(before) :
                                   m # k => files_list[m] = before[m]

\* ("5.jpg", "abc", "A") and then ("5.jpg", "abc", "B") were added, and the
\* same call made once more was refused
C7_Witness ==
    /\ files_list = << [file_name |-> <<"5", ".", "jpg">>, size |-> "w",
                        checksum |-> <<"abc">>, disks |-> <<"A", "B">>] >>
    /\ last_add.raised
    /\ last_add.name = <<"5", ".", "jpg">>
    /\ last_add.checksum = <<"abc">>
    /\ last_add.disk = "B"

(* C8: after any sequence of FileList.add calls on an empty list no two     *)
(* entries have the same file_name, no two have the same checksum, and no   *)
(* entry lists a disk twice                                                 *)
C8_EntriesUnique ==
    /\ \A k \in 1..Len(files_list), m \in 1..Len(files_list) :
           k # m => /\ files_list[k].file_name # files_list[m].file_name
                    /\ files_list[k].checksum # files_list[m].checksum
    /\ \A k \in 1..Len(files_list) :
           \A m \in 1..Len(files_list[k].disks),
              n \in 1..Len(files_list[k].disks) :
               m # n => files_list[k].disks[m] # files_list[k].disks[n]

\* two entries, both on two disks; the last call brought a listed name with
\* the checksum of the other entry
C8_Witness ==
    /\ Len(files_list) = 2
    /\ \A k \in 1..2 : Len(files_list[k].disks) = 2
    /\ last_add # NoAdd
    /\ last_add.name = files_list[1].file_name
    /\ last_add.checksum = files_list[2].checksum

(* C9: name resolution terminates.  The inventories do not change while it  *)
(* runs and the next candidate is a function of the current one and the     *)
(* inventories, so it terminates exactly when it never comes back to a      *)
(* candidate it has renamed before                                         *)
C9_ResolutionTerminates ==
    pc = "resolve" => file_name \notin rejected

C11_SharedNameSafeOnUnion ==
    LET Present(items, files) ==
            {items[k].name : k \in 1..Len(items)} \cup Range(files)
    IN  ( pc = "google" /\ retry = 0 )
        => /\ ( /\ gdrive = "GoogleDriveItem"
                /\ photo.md5 \notin DOMAIN google_folder_files_list )
              => file_name \notin Present(listing.google,
                                          google_folder_files_list)
           /\ ( /\ yadisk = "YaDisk"
                /\ photo.md5 \notin DOMAIN yandex_folder_files_list )
              => file_name \notin Present(listing.yandex,
                                          yandex_folder_files_list)

(* C12: no error raised while a photo is processed ends the run: the       *)
(* script never leaves the photo loop through an exception, which would     *)
(* leave the later photos unprocessed and the manifest unsaved              *)
C12_NoErrorEndsTheRun ==
    pc # "crashed"

(* C13: a hash that several listed entries have is mapped, in the inventory *)
(* built when the run starts, to the name of the first of them              *)
C13_FirstOccurrenceWins ==
    LET First(items, k) ==
            /\ items[k].md5 # NoMd5
            /\ \A m \in 1..(k - 1) : items[m].md5 # items[k].md5
    IN  taken = 0
        => /\ \A k \in 1..Len(listing.google) :
                  First(listing.google, k)
                  => google_folder_files_list[listing.google[k].md5]
                         = listing.google[k].name
           /\ \A k \in 1..Len(listing.yandex) :
                  First(listing.yandex, k)
                  => yandex_folder_files_list[listing.yandex[k].md5]
                         = listing.yandex[k].name

(* C14: every name a listing returned counts as taken for the collision     *)
(* test (a value of the inventory equals it), whatever the hash of its      *)
(* entry and whether it has one                                             *)
C14_ListedNamesTaken ==
    taken = 0
    => /\ \A k \in 1..Len(listing.google) :
              \E h \in DOMAIN google_folder_files_list :
                  google_folder_files_list[h] = listing.google[k].name
       /\ \A k \in 1..Len(listing.yandex) :
              \E h \in DOMAIN yandex_folder_files_list :
                  yandex_folder_files_list[h] = listing.yandex[k].name

(* C15: within a run each inventory only grows: no step removes a hash or   *)
(* changes the name recorded for it, so every upload of the run stays       *)
(* recorded, under the name it was uploaded with, in the inventory of its   *)
(* destination                                                              *)
C15_InventoriesOnlyGrow ==
    /\ [][ /\ \A h \in DOMAIN google_folder_files_list :
                  /\ h \in DOMAIN google_folder_files_list'
                  /\ google_folder_files_list'[h] = google_folder_files_list[h]
           /\ \A h \in DOMAIN yandex_folder_files_list :
                  /\ h \in DOMAIN yandex_folder_files_list'
                  /\ yandex_folder_files_list'[h] = yandex_folder_files_list[h]
       ]_vars
    /\ [](\A key \in DOMAIN uploaded :
              LET files == IF key[1] = GoogleDisk
                           THEN google_folder_files_list
                           ELSE yandex_folder_files_list
              IN  /\ key[2] \in DOMAIN files
                  /\ files[key[2]] = uploaded[key][1])

\* the second photo of the run meets, in the collision test, the name under
\* which the first one was uploaded to Google
C15_Witness ==
    /\ pc = "resolve"
    /\ taken = 2
    /\ gdrive = "GoogleDriveItem"
    /\ <<GoogleDisk, <<"a">> >> \in DOMAIN uploaded
    /\ Cardinality(DOMAIN google_folder_files_list) = 2
    /\ photo.md5 \notin DOMAIN google_folder_files_list
    /\ file_name = google_folder_files_list[<<"a">>]

(* C16: when a photo has been uploaded to a destination, the inventory of   *)
(* the destination maps the photo's checksum to the uploaded name and the   *)
(* manifest has an entry, with that name or that checksum, that lists the   *)
(* locator of the destination; a step of a pair that is not a successful    *)
(* upload changes neither the inventories nor the manifest                  *)
C16_SuccessIsRecorded ==
    /\ [](LET Recorded(files, disk) ==
                  /\ photo.md5 \in DOMAIN files
                  /\ files[photo.md5] = file_name
                  /\ \E k \in 1..Len(files_list) :
                         /\ \/ files_list[k].file_name = file_name
                            \/ files_list[k].checksum = photo.md5
                         /\ \E m \in 1..Len(files_list[k].disks) :
                                files_list[k].disks[m] = disk
          IN  /\ ( pc = "google_done" /\ result = "SUCCESS" )
                 => Recorded(google_folder_files_list, GoogleDisk)
              /\ ( pc = "yandex_done" /\ result = "SUCCESS" )
                 => Recorded(yandex_folder_files_list, YandexDisk))
    /\ [][ ( /\ pc \in {"google", "yandex", "yandex_put"}
             /\ result' \in {"PENDING", "FAILED", "SKIPPED", "OFF"} )
           => UNCHANGED <<files_list, google_folder_files_list,
                          yandex_folder_files_list>> ]_vars

\* a photo was uploaded to Google and then to Yandex: its manifest entry
\* lists both locators
C16_Witness ==
    /\ pc = "yandex_done"
    /\ result = "SUCCESS"
    /\ yandex_folder_files_list[photo.md5] = file_name
    /\ \E k \in 1..Len(files_list) :
           /\ files_list[k].file_name = file_name
           /\ files_list[k].checksum = photo.md5
           /\ files_list[k].disks = <<GoogleDisk, YandexDisk>>

(* C17: when files_list.add raises FileAlreadyExistInFileList after an      *)
(* upload, the loop goes round once more with the upload recorded in the    *)
(* destination's inventory; that iteration finds the checksum there and     *)
(* ends the pair, without an upload call and without a change to the        *)
(* manifest or the inventories                                              *)
C17_DuplicateEntryHandled ==
    /\ []( ( pc = "google" /\ result = "SUCCESS" )
           => ( /\ photo.md5 \in DOMAIN google_folder_files_list
                /\ google_folder_files_list[photo.md5] = file_name
                /\ ENABLED GoogleSkip ) )
    /\ []( ( pc = "yandex" /\ result = "SUCCESS" )
           => ( /\ photo.md5 \in DOMAIN yandex_folder_files_list
                /\ yandex_folder_files_list[photo.md5] = file_name
                /\ ENABLED YandexSkip ) )
    /\ [][ ( pc \in {"google", "yandex"} /\ result = "SUCCESS" )
           => ( /\ pc' = IF pc = "google" THEN "google_done"
                                          ELSE "yandex_done"
                /\ result' = "SUCCESS"
                /\ attempts' = attempts
                /\ sent' = sent
                /\ Unrecorded ) ]_vars

\* the third photo of the run has been uploaded to Yandex, add has raised
\* for it, and the Yandex loop is in its next iteration
C17_Witness ==
    /\ pc = "yandex"
    /\ result = "SUCCESS"
    /\ retry > 0
    /\ taken = 3
    /\ attempts >= 1
    /\ <<YandexDisk, photo.md5>> \in DOMAIN uploaded

(* C18: the photos are processed one after the other, in the order of the   *)
(* list: a photo is taken only when the one before has gone through name    *)
(* resolution, the Google loop and then the Yandex loop; an upload call to  *)
(* Google is made only in the Google loop, one to Yandex only in the Yandex *)
(* loop, and the script never goes back from the Yandex loop to the Google  *)
(* loop of the same photo                                                   *)
C18_PhotosAndDestinationsInOrder ==
    [][ /\ pc' # pc
           => \/ pc = "for_photo" /\ pc' \in {"resolve", "done", "crashed"}
              \/ pc = "resolve" /\ pc' = "google"
              \/ pc = "google" /\ pc' = "google_done"
              \/ pc = "google_done" /\ pc' = "yandex"
              \/ pc = "yandex" /\ pc' \in {"yandex_put", "yandex_done"}
              \/ pc = "yandex_put" /\ pc' \in {"yandex", "yandex_done"}
              \/ pc = "yandex_done" /\ pc' = "for_photo"
        /\ taken' # taken
           => pc = "for_photo" /\ pc' = "resolve" /\ taken' = taken + 1
        /\ ( pc = "for_photo" /\ pc' = "resolve" ) => taken' = taken + 1
        /\ photo' # photo => pc \in {"for_photo", "yandex_done"}
        /\ attempts' > attempts
           => /\ attempts' = attempts + 1
              /\ pc \in {"google", "yandex"}
              /\ pc = "google" => pc' \in {"google", "google_done"}
              /\ pc = "yandex" => pc' \in {"yandex", "yandex_put",
                                           "yandex_done"} ]_vars

\* the second photo is being sent to Yandex after it was uploaded to Google,
\* the first photo having been uploaded before
C18_Witness ==
    /\ pc = "yandex_put"
    /\ taken = 2
    /\ <<GoogleDisk, photo.md5>> \in DOMAIN uploaded
    /\ \E key \in DOMAIN uploaded : key[2] # photo.md5

(* C19: the manifest is written exactly once, when the run is over, with    *)
(* the entries of the list in the order of their insertion: it is not       *)
(* written while photos are processed, and once the run has ended it has    *)
(* been written once and holds the whole list                               *)
C19_ManifestWrittenOnce ==
    /\ manifest_file.writes <= 1
    /\ pc \notin {"done", "crashed"} => manifest_file.writes = 0
    /\ pc \in {"done", "crashed"}
       => /\ manifest_file.writes = 1
          /\ manifest_file.items = files_list

(* C20: checksum(buffer) leaves the read position (and the bytes) of the    *)
(* buffer as they were, and a second call on the buffer it left returns     *)
(* the same digest: a call changes only the digest the caller holds, and    *)
(* a call made while the caller holds the digest of this buffer changes     *)
(* nothing                                                                  *)
C20_ChecksumRestoresPosition ==
    [][ photo'.md5 # <<>>
        => /\ image_data' = image_data
           /\ photo'.md5 = Md5(SubSeq(image_data.data, image_data.pos + 1,
                                      Len(image_data.data)))
           /\ photo.md5 # <<>> => photo'.md5 = photo.md5
           /\ ChecksumOf(image_data').result = photo'.md5
           /\ ChecksumOf(image_data').buffer = image_data ]_vars

\* the digest of a buffer read half way was computed and the buffer is still
\* half way
C20_Witness ==
    /\ pc = "checksum"
    /\ image_data.data = <<"x", "y", "y", "x">>
    /\ image_data.pos = 2
    /\ photo.md5 = <<"md5", "y", "x">>

(* C21: every locator of a manifest entry stands for a file that was        *)
(* uploaded to that destination during the run under the entry's file_name  *)
(* and with the entry's checksum                                            *)
C21_LocatorMatchesUpload ==
    \A k \in 1..Len(files_list) :
        \A m \in 1..Len(files_list[k].disks) :
            LET key == <<files_list[k].disks[m], files_list[k].checksum>>
            IN  /\ key \in DOMAIN uploaded
                /\ files_list[k].file_name \in Range(uploaded[key])

(* C22: every upload call, on every attempt and on either destination,      *)
(* reads the photo's buffer from the position it had after the checksum was *)
(* taken, the start of the content: the PUT loop of yadisk.upload is        *)
(* entered with the buffer at its start and every call that sends the       *)
(* buffer sends the whole content                                           *)
C22_EveryUploadReadsFromStart ==
    /\ pc = "yandex_put" => image_data = CursorAfterChecksum(0)
    /\ sent # -1 => sent = ContentLen

(* C23: a photo is skipped on a destination only when a file with its       *)
(* checksum lies in the configured folder of that destination or was        *)
(* uploaded there earlier in the run: files stored elsewhere in the account *)
(* are in no inventory                                                      *)
C23_SkippedOnlyForFolderFiles ==
    /\ ( pc = "google_done" /\ result = "SKIPPED" )
       => \/ <<GoogleDisk, photo.md5>> \in DOMAIN uploaded
          \/ \E k \in 1..Len(listing.google) :
                 /\ listing.google[k].md5 = photo.md5
                 /\ listing.google[k].parents = "folder"
    /\ ( pc = "yandex_done" /\ result = "SKIPPED" )
       => \/ <<YandexDisk, photo.md5>> \in DOMAIN uploaded
          \/ \E k \in 1..Len(listing.yandex) :
                 /\ listing.yandex[k].md5 = photo.md5
                 /\ listing.yandex[k].path =
                        <<"disk:/", "folder", "/">> \o listing.yandex[k].name

(* C24: when only Yandex is selected, the Google token is neither validated *)
(* nor asked for and the run is not stopped: it goes on to the folders with *)
(* Yandex enabled and Google disabled                                       *)
C24_YandexOnlyLeavesGoogleAlone ==
    user_input = 1
    => /\ asked = <<>>
       /\ pc \notin {"crashed", "exited"}
       /\ pc = "init_disks" => ( yadisk = "True" /\ gdrive = "False" )

(* C25: a call of YaDisk.upload sends at most max_retry_count PUT requests  *)
(* that are answered with a status asking for another attempt, and then     *)
(* raises: the count of such answers never goes beyond max_retry_count,     *)
(* whatever max_retry_count is, 0 included                                  *)
C25_PutAttemptsBounded ==
    retry_count <= max_retry_count

\* the photos.get calls of a sequence of scripts, in order
RECURSIVE CallsOf(_)
CallsOf(scripts) ==
    IF scripts = <<>> THEN <<>>
    ELSE CallsOf(SubSeq(scripts, 1, Len(scripts) - 1)) \o scripts[Len(scripts)]

(* C26: when get_photos_from_albums returns, every photos.get call it has   *)
(* generated was sent in exactly one executed script: the calls of the      *)
(* scripts, taken in order, are the generated calls, none missing and none  *)
(* twice                                                                    *)
C26_EveryCallExecutedOnce ==
    pc = "returned" => CallsOf(executed) = generated

(* C27: no script given to api.execute holds more than                      *)
(* VK_MAX_REQUEST_COUNT_IN_CODE photos.get calls                            *)
C27_ScriptWithinLimit ==
    \A k \in 1..Len(executed) :
        Len(executed[k]) <= VK_MAX_REQUEST_COUNT_IN_CODE

(* C28: access_token never returns the value of an expired token.  A token  *)
(* that is not expired, and every token without expires_at, is returned as  *)
(* stored and without a refresh request; an expired token is refreshed: the *)
(* new value is returned and stored when the refresh succeeds, None is      *)
(* returned otherwise                                                       *)
C28_AccessTokenNeverExpired ==
    [][ ( pc = "token" /\ pc' = "token_returned" )
        => LET token == google_token[1]
               after == google_token'[1]
               expired == /\ token.expires_at # None
                          /\ token.expires_at[1] # 0
                          /\ token.expires_at[1] - now < 10
           IN  /\ token.expires_at = None => ~expired
               /\ ~expired => /\ returned' = token.access_token
                              /\ asked' = <<>>
                              /\ after = token
               /\ expired => \/ /\ returned' = None
                                /\ after = token
                             \/ /\ returned' # None
                                /\ returned' # token.access_token
                                /\ returned' = after.access_token
                                /\ asked' = <<"refresh">>
               /\ returned' # None
                  => ~( /\ after.expires_at # None
                        /\ after.expires_at[1] # 0
                        /\ after.expires_at[1] - now' < 10 ) ]_vars

\* an expired token was refreshed and its new value returned
C28_Witness ==
    /\ pc = "token_returned"
    /\ asked = <<"refresh">>
    /\ returned = <<"g2">>
    /\ google_token[1].access_token = <<"g2">>

(* C29: when create_folder(path, create_parent_folders=True) has returned,  *)
(* the whole path resolves: every component that was missing has been       *)
(* created as a child of the component before it                            *)
C29_CreatedPathResolves ==
    pc = "returned" => ResolvePath(drive, parts)

(* C30: VKAPI sends at most VK_API_MAX_RPS requests in any window of one    *)
(* second: of any VK_API_MAX_RPS + 1 requests in a row, the last is sent    *)
(* more than a second after the first, and the log holds at most            *)
(* VK_API_MAX_RPS timestamps that are not older than a second               *)
C30_AtMostThreeRequestsPerSecond ==
    /\ \A k \in 1..Len(sent_at) :
           k + VK_API_MAX_RPS <= Len(sent_at)
           => sent_at[k + VK_API_MAX_RPS] - sent_at[k] > 1000
    /\ Len(Pruned(request_log, now)) <= VK_API_MAX_RPS

\* three requests were sent within a second and the fourth was delayed to
\* the first moment allowed
C30_Witness ==
    /\ Len(sent_at) >= 4
    /\ sent_at[3] - sent_at[1] <= 2
    /\ sent_at[4] - sent_at[1] = 1001

=============================================================================
